---- MODULE Spec2Model ----
(***************************************************************************)
(* Permission-inheritance audit of a shared drive (PermisosCarpetas).      *)
(*                                                                         *)
(* The repository holds two editions of the same engine:                   *)
(*   "legacy"  : startAudit / processQueue / getPermissionSet /            *)
(*               logDifferences            (src/unnamed/part_000)          *)
(*   "modular" : iniciarAuditoria / continuarAuditoria (src/unnamed/       *)
(*               part_002), obtenerConjuntoPermisos /                      *)
(*               registrarDiferenciasPermisos (src/API_Permisos.js),       *)
(*               volcarHallazgoAPaginacion (src/API_SalidaDrive.js)        *)
(* The variable `variante` says which edition is installed.                *)
(***************************************************************************)
EXTENDS Integers, Sequences, FiniteSets, TLC

(***************************************************************************)
(* Bounds of the model.                                                    *)
(***************************************************************************)
\* Nodes of the drive are 0..MaxNodo; node 0 is the root folder.
MaxNodo == 4
\* How many times the platform may kill a running invocation in one audit.
MaxAbortos == 1
\* Page capacity used for LIMITE_FILAS_POR_HOJA_REPORTE (50000 in the source).
LIMITE_FILAS_POR_HOJA_REPORTE == 6

(***************************************************************************)
(* Program constants.                                                      *)
(***************************************************************************)
TIEMPO_MAXIMO_EJECUCION_MS == 20 * 60 * 1000
MAX_RUNTIME_MS == 20 * 60 * 1000
\* The clock of the model advances in steps of twenty minutes.
CuantoMS == 20 * 60 * 1000
\* A session is followed for at most MaxTicks steps of the clock.
MaxTicks == 2
MaxFallos == 2

(***************************************************************************)
(* The drive (tree store collaborator).                                    *)
(***************************************************************************)
Nodos == 0..MaxNodo
Raiz == 0
\* The root holds the folders 1 and 2, folder 1 holds folder 3; every further
\* node is a file, under folder 1, 2, 2, 3, 3, ...
EsCarpeta(n) == n \in {0, 1, 2, 3}
Padre(n) == (n - 1) \div 2
\* getFolders() / getFiles() iterate the children in a fixed order.
RECURSIVE HijosDesde(_, _, _)
HijosDesde(p, n, carpetas) ==
    IF n > MaxNodo THEN <<>>
    ELSE IF n # Raiz /\ Padre(n) = p /\ EsCarpeta(n) = carpetas
         THEN <<n>> \o HijosDesde(p, n + 1, carpetas)
         ELSE HijosDesde(p, n + 1, carpetas)
SubCarpetas(p) == HijosDesde(p, 1, TRUE)
Archivos(p) == HijosDesde(p, 1, FALSE)

Identidades == {"alice", "bob"}
Niveles == {"Ninguno", "Visualizador", "Editor"}

\* Sequences over S of length <= 2.
SeqHasta2(S) == {<<>>} \cup {<<a>> : a \in S} \cup {<<a, b>> : a, b \in S}

(***************************************************************************)
(* Helpers for JavaScript collections.                                     *)
(***************************************************************************)
Rango(s) == {s[i] : i \in DOMAIN s}
Includes(s, x) == \E i \in DOMAIN s : s[i] = x
\* [...new Set(s)]: insertion order, first occurrence kept.
RECURSIVE SinDuplicados(_)
SinDuplicados(s) ==
    IF s = <<>> THEN <<>>
    ELSE LET r == SinDuplicados(SubSeq(s, 1, Len(s) - 1))
         IN IF Includes(r, s[Len(s)]) THEN r ELSE Append(r, s[Len(s)])
\* s.filter(x => !excl.includes(x))
RECURSIVE FiltrarFuera(_, _)
FiltrarFuera(s, excl) ==
    IF s = <<>> THEN <<>>
    ELSE IF Includes(excl, Head(s)) THEN FiltrarFuera(Tail(s), excl)
         ELSE <<Head(s)>> \o FiltrarFuera(Tail(s), excl)

(***************************************************************************)
(* Raw grants of an item, as DriveApp reports them.  `fallas` names the    *)
(* facet reads that throw.                                                 *)
(***************************************************************************)
Accesos == {"ANYONE", "ANYONE_WITH_LINK", "DOMAIN", "DOMAIN_WITH_LINK", "PRIVATE"}
Permisos == {"EDIT", "VIEW", "COMMENT", "NONE"}

AccesoPublicoDe(crudo) ==
    IF "sharing" \in crudo.fallas THEN "Ninguno"
    ELSE IF crudo.sharingAccess \in {"ANYONE", "ANYONE_WITH_LINK"}
         THEN IF crudo.sharingPermission = "EDIT" THEN "Editor"
              ELSE IF crudo.sharingPermission = "VIEW" THEN "Visualizador"
              ELSE "Ninguno"
         ELSE "Ninguno"

AccesoDominioDe(crudo) ==
    IF "sharing" \in crudo.fallas THEN "Ninguno"
    ELSE IF crudo.sharingAccess \in {"ANYONE", "ANYONE_WITH_LINK"} THEN "Ninguno"
    ELSE IF crudo.sharingAccess \in {"DOMAIN", "DOMAIN_WITH_LINK"}
         THEN IF crudo.sharingPermission = "EDIT" THEN "Editor"
              ELSE IF crudo.sharingPermission = "VIEW" THEN "Visualizador"
              ELSE "Ninguno"
         ELSE "Ninguno"

EditoresLeidos(crudo) ==
    IF "editors" \in crudo.fallas THEN <<>> ELSE SinDuplicados(crudo.editors)
\* A mutant of the reads: one try around both enumerations, so that a failure
\* of the editors read leaves the viewers unread.
VisualizadoresLeidosTrasEditores(crudo) ==
    IF "editors" \in crudo.fallas \/ "viewers" \in crudo.fallas THEN <<>>
    ELSE SinDuplicados(crudo.viewers)
VisualizadoresLeidos(crudo) ==
    IF "viewers" \in crudo.fallas THEN <<>> ELSE SinDuplicados(crudo.viewers)

\* A mutant of the overlap filter: the viewers are returned as read.
VisualizadoresFinalesSinFiltro(crudo) == VisualizadoresLeidos(crudo)
\* const visualizadoresFinales = [...visualizadores].filter(v => !editores.has(v))
VisualizadoresFinales(crudo) ==
    FiltrarFuera(VisualizadoresLeidos(crudo), EditoresLeidos(crudo))

\* modular edition
obtenerConjuntoPermisos(crudo) ==
    [editores       |-> EditoresLeidos(crudo),
     visualizadores |-> VisualizadoresFinales(crudo),
     accesoPublico  |-> AccesoPublicoDe(crudo),
     accesoDominio  |-> AccesoDominioDe(crudo)]

\* legacy edition
getPermissionSet(crudo) ==
    [editors      |-> EditoresLeidos(crudo),
     viewers      |-> VisualizadoresFinales(crudo),
     publicAccess |-> AccesoPublicoDe(crudo),
     domainAccess |-> AccesoDominioDe(crudo)]

obtenerNivelAccesoUsuario(emailUsuario, conjuntoPermisos) ==
    IF Includes(conjuntoPermisos.editores, emailUsuario) THEN "Editor"
    ELSE IF Includes(conjuntoPermisos.visualizadores, emailUsuario) THEN "Visualizador"
    ELSE "Ninguno"

getAccess(userEmail, permissionSet) ==
    IF Includes(permissionSet.editors, userEmail) THEN "Editor"
    ELSE IF Includes(permissionSet.viewers, userEmail) THEN "Visualizador"
    ELSE "Ninguno"

(***************************************************************************)
(* JSON.stringify / JSON.parse of a permission set in a queue cell.  The   *)
(* cell holds text: here a tuple of the fields in the order they are       *)
(* written; parsing rebuilds the object.                                   *)
(***************************************************************************)
StringifyModular(p) ==
    <<"editores", p.editores, "visualizadores", p.visualizadores,
      "accesoPublico", p.accesoPublico, "accesoDominio", p.accesoDominio>>
ParseModular(t) ==
    [editores |-> t[2], visualizadores |-> t[4],
     accesoPublico |-> t[6], accesoDominio |-> t[8]]
StringifyLegacy(p) ==
    <<"editors", p.editors, "viewers", p.viewers,
      "publicAccess", p.publicAccess, "domainAccess", p.domainAccess>>
ParseLegacy(t) ==
    [editors |-> t[2], viewers |-> t[4],
     publicAccess |-> t[6], domainAccess |-> t[8]]

(***************************************************************************)
(* Rendering of a Finding's access text: a list of items that the code     *)
(* joins with ", ".                                                        *)
(***************************************************************************)
Item(etiqueta, detalle, nivel) ==
    [etiqueta |-> etiqueta, detalle |-> detalle, nivel |-> nivel]
ItemsDe(correos, nivel) == [i \in DOMAIN correos |-> Item("Usuario", correos[i], nivel)]
SoloHerencia == <<Item("Permisos solo por herencia", "", "")>>
TextoError(mensaje) == <<Item("ERROR", mensaje, "")>>
Fila(ruta, url, tipo, texto) ==
    [ruta |-> ruta, url |-> url, tipo |-> tipo, texto |-> texto]
Url(n) == <<"url", n>>

(***************************************************************************)
(* Diff engine, legacy edition: logDifferences appends to the sheet it is  *)
(* given.                                                                  *)
(***************************************************************************)
allUsers(parentSet, childSet) ==
    Rango(parentSet.editors) \cup Rango(parentSet.viewers)
        \cup Rango(childSet.editors) \cup Rango(childSet.viewers)

\* A mutant of the detection: the link-sharing levels are not compared.
differencesFoundSoloUsuarios(parentSet, childSet) ==
    \E user \in allUsers(parentSet, childSet) :
        getAccess(user, parentSet) # getAccess(user, childSet)
\* A mutant of the detection: an identity the child lacks counts for nothing.
differencesFoundSoloHijo(parentSet, childSet) ==
    \/ \E user \in Rango(childSet.editors) \cup Rango(childSet.viewers) :
           getAccess(user, parentSet) # getAccess(user, childSet)
    \/ parentSet.publicAccess # childSet.publicAccess
    \/ parentSet.domainAccess # childSet.domainAccess
\* A mutant of the detection: the lists are compared as written, order included.
differencesFoundPorOrden(parentSet, childSet) ==
    \/ parentSet.editors # childSet.editors
    \/ parentSet.viewers # childSet.viewers
    \/ parentSet.publicAccess # childSet.publicAccess
    \/ parentSet.domainAccess # childSet.domainAccess
differencesFound(parentSet, childSet) ==
    \/ \E user \in allUsers(parentSet, childSet) :
           getAccess(user, parentSet) # getAccess(user, childSet)
    \/ parentSet.publicAccess # childSet.publicAccess
    \/ parentSet.domainAccess # childSet.domainAccess

\* A mutant of the rendering: the viewers are listed before the editors.
usersWithRoleVisualizadoresPrimero(childSet, domain) ==
    (IF childSet.publicAccess # "Ninguno"
     THEN <<Item("Publico", "Cualquiera con enlace", childSet.publicAccess)>> ELSE <<>>)
    \o (IF childSet.domainAccess # "Ninguno"
        THEN <<Item("Dominio", domain, childSet.domainAccess)>> ELSE <<>>)
    \o ItemsDe(childSet.viewers, "Visualizador")
    \o ItemsDe(childSet.editors, "Editor")
usersWithRole(childSet, domain) ==
    (IF childSet.publicAccess # "Ninguno"
     THEN <<Item("Publico", "Cualquiera con enlace", childSet.publicAccess)>> ELSE <<>>)
    \o (IF childSet.domainAccess # "Ninguno"
        THEN <<Item("Dominio", domain, childSet.domainAccess)>> ELSE <<>>)
    \o ItemsDe(childSet.editors, "Editor")
    \o ItemsDe(childSet.viewers, "Visualizador")

userList(childSet, domain) ==
    IF Len(usersWithRole(childSet, domain)) > 0
    THEN usersWithRole(childSet, domain) ELSE SoloHerencia

logDifferences(parentSet, childSet, path, url, type, sheet, domain) ==
    IF differencesFound(parentSet, childSet)
    THEN Append(sheet, Fila(path, url, type, userList(childSet, domain)))
    ELSE sheet

(***************************************************************************)
(* Diff engine, modular edition.  registrarDiferenciasPermisos declares    *)
(* six parameters and appends to `hojaReporte`, a name that is bound in no *)
(* scope the function can see: evaluating it throws a ReferenceError.  The *)
(* function has no return statement.                                       *)
(***************************************************************************)
todosLosUsuarios(conjuntoPadre, conjuntoHijo) ==
    Rango(conjuntoPadre.editores) \cup Rango(conjuntoPadre.visualizadores)
        \cup Rango(conjuntoHijo.editores) \cup Rango(conjuntoHijo.visualizadores)

\* A mutant of the detection: the literal comparison of the editor lists.
diferenciasDetectadasPorOrden(conjuntoPadre, conjuntoHijo) ==
    \/ conjuntoPadre.editores # conjuntoHijo.editores
    \/ conjuntoPadre.visualizadores # conjuntoHijo.visualizadores
    \/ conjuntoPadre.accesoPublico # conjuntoHijo.accesoPublico
    \/ conjuntoPadre.accesoDominio # conjuntoHijo.accesoDominio
diferenciasDetectadas(conjuntoPadre, conjuntoHijo) ==
    \/ \E usuario \in todosLosUsuarios(conjuntoPadre, conjuntoHijo) :
           obtenerNivelAccesoUsuario(usuario, conjuntoPadre)
               # obtenerNivelAccesoUsuario(usuario, conjuntoHijo)
    \/ conjuntoPadre.accesoPublico # conjuntoHijo.accesoPublico
    \/ conjuntoPadre.accesoDominio # conjuntoHijo.accesoDominio

listaUsuariosRoles(conjuntoHijo, dominioOrganizacion) ==
    (IF conjuntoHijo.accesoPublico # "Ninguno"
     THEN <<Item("Publico", "Cualquiera con enlace", conjuntoHijo.accesoPublico)>>
     ELSE <<>>)
    \o (IF conjuntoHijo.accesoDominio # "Ninguno"
        THEN <<Item("Dominio", dominioOrganizacion, conjuntoHijo.accesoDominio)>>
        ELSE <<>>)
    \o ItemsDe(conjuntoHijo.editores, "Editor")
    \o ItemsDe(conjuntoHijo.visualizadores, "Visualizador")

usuariosTexto(conjuntoHijo, dominioOrganizacion) ==
    IF Len(listaUsuariosRoles(conjuntoHijo, dominioOrganizacion)) > 0
    THEN listaUsuariosRoles(conjuntoHijo, dominioOrganizacion) ELSE SoloHerencia

\* The outcome of a call: what it returns and what it throws.
Resultado(valor, excepcion) == [valor |-> valor, excepcion |-> excepcion]
ErrorHojaReporte == "hojaReporte is not defined"

registrarDiferenciasPermisos(conjuntoPadre, conjuntoHijo, ruta, url, tipoItem, dominioOrganizacion) ==
    IF diferenciasDetectadas(conjuntoPadre, conjuntoHijo)
    THEN Resultado("undefined", ErrorHojaReporte)
    ELSE Resultado("undefined", "")

(***************************************************************************)
(* State.                                                                  *)
(***************************************************************************)
VARIABLES
    variante,       \* "legacy" or "modular": the edition that is installed
    permisosDrive,  \* the drive: node -> raw grants
    colaExiste,     \* the sheet Queue_STATE exists
    cola,           \* its rows below the header row, front first
    reporte,        \* the rows of the sheet 'Reporte de Permisos' below its header
    pc,             \* position of the running invocation, "ocioso" when none runs
    actual,         \* locals of the loop body: <<>> or <<[item, permisos]>>
    transcurrido,   \* new Date().getTime() - startTime of the running invocation (0 when none runs)
    alerta,         \* how the last invocation ended (ui.alert, or an exception)
    \* History of the current audit, which begins at a start and ends at the
    \* next start or clear:
    abortos,        \* invocations that ended by an exception or a kill
    visitas,        \* node -> times it was diffed
    encolados,      \* node -> times a row for it was appended to the queue
    borrados,       \* node -> times its row was deleted from the front
    estadoActual,   \* output partitioner: { idSheet, filaActual, parteActual }
    paginas,        \* output partitioner: the spreadsheets created, each its rows
    exitos,         \* output partitioner: write calls whose row was appended
    entrada,        \* pure functions: the arguments of the call under test
    salida,         \* pure functions: <<>> before the call, <<result>> after it
    rotos,          \* the drive: the folders that getFolderById cannot resolve
    listadoFalla,   \* the drive: the folders whose getFolders() iteration throws
    pcs,            \* concurrent invocations: session -> its position
    actuales        \* concurrent invocations: session -> locals of its loop body

varsAuditoria ==
    <<variante, permisosDrive, colaExiste, cola, reporte, pc, actual, transcurrido,
      alerta, abortos, visitas, encolados, borrados>>
varsSalida == <<estadoActual, paginas, exitos>>
varsPuro == <<entrada, salida>>
varsFallas == <<rotos, listadoFalla>>
varsConcurrentes == <<pcs, actuales>>
vars == <<varsAuditoria, varsSalida, varsPuro, varsFallas, varsConcurrentes>>

(***************************************************************************)
(* Inputs of the traversal model: the raw grants an item may have.         *)
(***************************************************************************)
Crudo(ed, vi, acc, per, fallas) ==
    [editors |-> ed, viewers |-> vi, sharingAccess |-> acc,
     sharingPermission |-> per, fallas |-> fallas]
CrudoBase == Crudo(<<"alice">>, <<>>, "PRIVATE", "NONE", {})
CrudoSolapado == Crudo(<<"alice">>, <<"alice", "bob">>, "PRIVATE", "NONE", {})
CrudoPublico == Crudo(<<>>, <<>>, "ANYONE_WITH_LINK", "VIEW", {})
OpcionesCrudo(n) ==
    IF EsCarpeta(n) THEN {CrudoBase, CrudoSolapado, CrudoPublico}
    ELSE {CrudoBase, CrudoPublico}
Drives == {d \in [Nodos -> {CrudoBase, CrudoSolapado, CrudoPublico}] :
              \A n \in Nodos : d[n] \in OpcionesCrudo(n)}

\* Session.getEffectiveUser().getEmail().split('@')[1]
DominioSesion == "example.com"
\* The modular caller passes seven arguments: the sixth is the report sheet.
SextoArgumentoModular == "Sheet(Reporte de Permisos)"

Normalizar(var, crudo) ==
    IF var = "legacy" THEN getPermissionSet(crudo) ELSE obtenerConjuntoPermisos(crudo)
Stringify(var, p) ==
    IF var = "legacy" THEN StringifyLegacy(p) ELSE StringifyModular(p)
Parse(var, t) ==
    IF var = "legacy" THEN ParseLegacy(t) ELSE ParseModular(t)

\* JSON.parse throws on a cell that does not hold the text of an object.
CeldaCorrupta == <<"{">>
Decodificable(t) == Len(t) = 8

FilaCola(id, ruta, url, cache, raiz) ==
    [id |-> id, ruta |-> ruta, url |-> url, cache |-> cache, raiz |-> raiz]

\* The header and root-summary block that start writes, as one row.
BloqueRaiz == <<Fila(Raiz, Url(Raiz), "Unidad Compartida (Raiz)", <<>>)>>
FilaErrorRaiz == Fila(Raiz, "ERROR", "Error de Acceso", TextoError("acceso"))

Cero == [n \in Nodos |-> 0]
Mas1(f, n) == [f EXCEPT ![n] = @ + 1]
RECURSIVE MasTodos(_, _)
MasTodos(f, s) == IF s = <<>> THEN f ELSE MasTodos(Mas1(f, Head(s)), Tail(s))

(***************************************************************************)
(* The body of the loop, as functions of the values it reads.              *)
(***************************************************************************)
\* A mutant of step 3: the folder is diffed against what its parent grants now.
DiffCarpetaBaseViva(var, item, local, rep) ==
    IF item.raiz THEN [reporte |-> rep, excepcion |-> ""]
    ELSE IF var = "legacy"
    THEN [reporte |-> logDifferences(getPermissionSet(permisosDrive[Padre(item.id)]),
                                     local, item.ruta, item.url, "Carpeta", rep,
                                     DominioSesion),
          excepcion |-> ""]
    ELSE [reporte |-> rep,
          excepcion |-> registrarDiferenciasPermisos(
                            obtenerConjuntoPermisos(permisosDrive[Padre(item.id)]),
                            local, item.ruta, item.url, "Carpeta Plegable",
                            SextoArgumentoModular).excepcion]
\* Step 3: the diff of the folder itself.  [reporte, excepcion]
DiffCarpeta(var, item, local, rep) ==
    IF item.raiz THEN [reporte |-> rep, excepcion |-> ""]
    ELSE IF var = "legacy"
    THEN [reporte |-> logDifferences(Parse(var, item.cache), local, item.ruta,
                                     item.url, "Carpeta", rep, DominioSesion),
          excepcion |-> ""]
    ELSE [reporte |-> rep,
          excepcion |-> registrarDiferenciasPermisos(Parse(var, item.cache), local,
                            item.ruta, item.url, "Carpeta Plegable",
                            SextoArgumentoModular).excepcion]

\* Step 4: one file directly under the folder.
DiffArchivo(var, f, local, rep, drive) ==
    IF var = "legacy"
    THEN logDifferences(local, getPermissionSet(drive[f]), f, Url(f), "Archivo",
                        rep, DominioSesion)
    ELSE LET r == registrarDiferenciasPermisos(local,
                      obtenerConjuntoPermisos(drive[f]), f, Url(f),
                      "Documento Unitario", SextoArgumentoModular)
         IN IF r.excepcion # ""
            THEN Append(rep, Fila(f, Url(f), "Documento Unitario",
                                  TextoError(r.excepcion)))
            ELSE rep

RECURSIVE DiffArchivos(_, _, _, _, _)
DiffArchivos(var, fs, local, rep, drive) ==
    IF fs = <<>> THEN rep
    ELSE DiffArchivos(var, Tail(fs), local,
                      DiffArchivo(var, Head(fs), local, rep, drive), drive)

\* A mutant of step 5: the rows of the sub-folders carry the root flag.
FilasHijasComoRaiz(var, hijos, local) ==
    [i \in DOMAIN hijos |->
        FilaCola(hijos[i], hijos[i], Url(hijos[i]), Stringify(var, local), TRUE)]
\* Step 5: the rows of the sub-folders, all with the folder's own set as cache.
FilasHijas(var, hijos, local) ==
    [i \in DOMAIN hijos |->
        FilaCola(hijos[i], hijos[i], Url(hijos[i]), Stringify(var, local), FALSE)]

(***************************************************************************)
(* Initial state: a spreadsheet with the script installed, no audit yet.   *)
(***************************************************************************)
EstadoSinPagina == [idSheet |-> 0, filaActual |-> 0, parteActual |-> 0]

InitAuditoria ==
    /\ variante \in {"legacy", "modular"}
    /\ permisosDrive \in Drives
    /\ colaExiste = FALSE
    /\ cola = <<>>
    /\ reporte = <<>>
    /\ pc = "ocioso"
    /\ actual = <<>>
    /\ transcurrido = 0
    /\ alerta = "ninguna"
    /\ abortos = 0
    /\ visitas = Cero
    /\ encolados = Cero
    /\ borrados = Cero

SalidaEnReposo ==
    /\ estadoActual = EstadoSinPagina
    /\ paginas = <<>>
    /\ exitos = 0
PuroEnReposo ==
    /\ entrada = <<>>
    /\ salida = <<>>
\* Every folder resolves and lists its sub-folders.
SinFallas == rotos = {} /\ listadoFalla = {}
\* The invocations that may run at once on the same spreadsheet.
Sesiones == {"A", "B"}
ConcurrentesEnReposo ==
    /\ pcs = [s \in Sesiones |-> "ocioso"]
    /\ actuales = [s \in Sesiones |-> <<>>]

Init == InitAuditoria /\ SalidaEnReposo /\ PuroEnReposo /\ SinFallas /\ ConcurrentesEnReposo

(***************************************************************************)
(* limpiarEstadoAuditoria / clearState: deletes the queue sheet.           *)
(***************************************************************************)
Limpiar ==
    /\ pc = "ocioso"
    /\ colaExiste' = FALSE
    /\ cola' = <<>>
    /\ alerta' = "limpiado"
    /\ abortos' = 0
    /\ visitas' = Cero
    /\ encolados' = Cero
    /\ borrados' = Cero
    /\ UNCHANGED <<variante, permisosDrive, reporte, pc, actual, transcurrido,
                   varsSalida, varsPuro, varsFallas, varsConcurrentes>>

(***************************************************************************)
(* iniciarAuditoria / startAudit.  The three ways it can go are the three  *)
(* answers of its collaborators: the prompt is cancelled, the root cannot  *)
(* be accessed, or the root is enqueued and the first session begins.      *)
(***************************************************************************)
\* A mutant of the start: the prompt is shown before the queue is cleared, so
\* that a cancelled start leaves the queue sheet as it was.
IniciarCanceladaSinLimpiar ==
    /\ pc = "ocioso"
    /\ alerta' = "cancelada"
    /\ UNCHANGED <<variante, permisosDrive, colaExiste, cola, reporte, pc, actual,
                   transcurrido, abortos, visitas, encolados, borrados,
                   varsSalida, varsPuro, varsFallas, varsConcurrentes>>
IniciarCancelada ==
    /\ pc = "ocioso"
    /\ colaExiste' = FALSE
    /\ cola' = <<>>
    /\ alerta' = "cancelada"
    /\ abortos' = 0
    /\ visitas' = Cero
    /\ encolados' = Cero
    /\ borrados' = Cero
    /\ UNCHANGED <<variante, permisosDrive, reporte, pc, actual, transcurrido,
                   varsSalida, varsPuro, varsFallas, varsConcurrentes>>

IniciarErrorRaiz ==
    /\ pc = "ocioso"
    /\ reporte' = <<FilaErrorRaiz>>
    /\ colaExiste' = TRUE
    /\ cola' = <<>>
    /\ alerta' = "errorRaiz"
    /\ abortos' = 0
    /\ visitas' = Cero
    /\ encolados' = Cero
    /\ borrados' = Cero
    /\ UNCHANGED <<variante, permisosDrive, pc, actual, transcurrido,
                   varsSalida, varsPuro, varsFallas, varsConcurrentes>>

IniciarOk ==
    /\ pc = "ocioso"
    /\ reporte' = BloqueRaiz
    /\ colaExiste' = TRUE
    /\ cola' = <<FilaCola(Raiz, Raiz, Url(Raiz),
                          Stringify(variante, Normalizar(variante, permisosDrive[Raiz])),
                          TRUE)>>
    /\ alerta' = "iniciada"
    /\ abortos' = 0
    /\ visitas' = Cero
    /\ encolados' = Mas1(Cero, Raiz)
    /\ borrados' = Cero
    \* continuarAuditoria() is called at the end of the start.
    /\ pc' = "bucle"
    /\ actual' = <<>>
    /\ transcurrido' = 0
    /\ UNCHANGED <<variante, permisosDrive, varsSalida, varsPuro, varsFallas, varsConcurrentes>>

(***************************************************************************)
(* continuarAuditoria / processQueue, from the menu.                       *)
(***************************************************************************)
ContinuarSinCola ==
    /\ pc = "ocioso"
    /\ ~colaExiste
    /\ alerta' = "sinCola"
    /\ UNCHANGED <<variante, permisosDrive, colaExiste, cola, reporte, pc, actual,
                   transcurrido, abortos, visitas, encolados, borrados,
                   varsSalida, varsPuro, varsFallas, varsConcurrentes>>

\* A mutant of the resume: the root is enqueued again.
ContinuarReencolaRaiz ==
    /\ pc = "ocioso"
    /\ colaExiste
    /\ abortos <= MaxAbortos
    /\ cola' = Append(cola, FilaCola(Raiz, Raiz, Url(Raiz),
                   Stringify(variante, Normalizar(variante, permisosDrive[Raiz])), TRUE))
    /\ pc' = "bucle"
    /\ actual' = <<>>
    /\ transcurrido' = 0
    /\ UNCHANGED <<variante, permisosDrive, colaExiste, reporte, alerta,
                   abortos, visitas, encolados, borrados, varsSalida, varsPuro, varsFallas, varsConcurrentes>>
Continuar ==
    /\ pc = "ocioso"
    /\ colaExiste
    /\ abortos <= MaxAbortos
    /\ pc' = "bucle"
    /\ actual' = <<>>
    /\ transcurrido' = 0
    /\ UNCHANGED <<variante, permisosDrive, colaExiste, cola, reporte, alerta,
                   abortos, visitas, encolados, borrados, varsSalida, varsPuro, varsFallas, varsConcurrentes>>

\* The clock runs while an invocation runs.
PasaTiempo ==
    /\ pc # "ocioso"
    /\ transcurrido < MaxTicks * CuantoMS
    /\ transcurrido' = transcurrido + CuantoMS
    /\ UNCHANGED <<variante, permisosDrive, colaExiste, cola, reporte, pc, actual,
                   alerta, abortos, visitas, encolados, borrados,
                   varsSalida, varsPuro, varsFallas, varsConcurrentes>>

PresupuestoMS == IF variante = "legacy" THEN MAX_RUNTIME_MS ELSE TIEMPO_MAXIMO_EJECUCION_MS

\* A mutant of the pause: the front row is deleted before the deadline check.
PausaPierdeFrente ==
    /\ pc = "bucle"
    /\ Len(cola) > 0
    /\ transcurrido > PresupuestoMS
    /\ cola' = Tail(cola)
    /\ pc' = "ocioso"
    /\ alerta' = "pausa"
    /\ transcurrido' = 0
    /\ UNCHANGED <<variante, permisosDrive, colaExiste, reporte, actual,
                   abortos, visitas, encolados, borrados, varsSalida, varsPuro, varsFallas, varsConcurrentes>>
\* A mutant of the pause: the deadline is also checked inside the loop body.
PausaEnMedio ==
    /\ pc \in {"bucle", "diferenciada", "archivos", "encolada"}
    /\ Len(cola) > 0
    /\ transcurrido > PresupuestoMS
    /\ pc' = "ocioso"
    /\ actual' = <<>>
    /\ alerta' = "pausa"
    /\ transcurrido' = 0
    /\ UNCHANGED <<variante, permisosDrive, colaExiste, cola, reporte,
                   abortos, visitas, encolados, borrados, varsSalida, varsPuro, varsFallas, varsConcurrentes>>
\* A mutant of the deadline check: it fires whatever the clock reads.
PausaSinMargen ==
    /\ pc = "bucle"
    /\ Len(cola) > 0
    /\ pc' = "ocioso"
    /\ alerta' = "pausa"
    /\ transcurrido' = 0
    /\ UNCHANGED <<variante, permisosDrive, colaExiste, cola, reporte, actual,
                   abortos, visitas, encolados, borrados, varsSalida, varsPuro, varsFallas, varsConcurrentes>>
\* The deadline check at the top of the loop fires.
Pausa ==
    /\ pc = "bucle"
    /\ Len(cola) > 0
    /\ transcurrido > PresupuestoMS
    /\ pc' = "ocioso"
    /\ alerta' = "pausa"
    /\ transcurrido' = 0
    /\ UNCHANGED <<variante, permisosDrive, colaExiste, cola, reporte, actual,
                   abortos, visitas, encolados, borrados, varsSalida, varsPuro, varsFallas, varsConcurrentes>>

\* A mutant of the completion: the queue sheet is left in place.
CompletarSinLimpiar ==
    /\ pc = "bucle"
    /\ Len(cola) = 0
    /\ pc' = "ocioso"
    /\ alerta' = "exito"
    /\ transcurrido' = 0
    /\ UNCHANGED <<variante, permisosDrive, colaExiste, cola, reporte, actual, abortos,
                   visitas, encolados, borrados, varsSalida, varsPuro, varsFallas, varsConcurrentes>>
\* The loop ends with only the header row left: clear, then the success alert.
Completar ==
    /\ pc = "bucle"
    /\ Len(cola) = 0
    /\ colaExiste' = FALSE
    /\ cola' = <<>>
    /\ pc' = "ocioso"
    /\ alerta' = "exito"
    /\ transcurrido' = 0
    /\ UNCHANGED <<variante, permisosDrive, reporte, actual, abortos,
                   visitas, encolados, borrados, varsSalida, varsPuro, varsFallas, varsConcurrentes>>

\* Row 2 is read and parsed, the folder resolved, its set computed, and the
\* folder itself diffed against the cached set of its parent.
PasoCarpeta ==
    /\ pc = "bucle"
    /\ Len(cola) > 0
    /\ ~(transcurrido > PresupuestoMS)
    /\ Decodificable(Head(cola).cache)
    /\ Head(cola).id \notin rotos
    /\ LET item == Head(cola)
           local == Normalizar(variante, permisosDrive[item.id])
           d == DiffCarpeta(variante, item, local, reporte)
       IN /\ visitas' = Mas1(visitas, item.id)
          /\ reporte' = d.reporte
          /\ IF d.excepcion # ""
             THEN \* uncaught: the invocation ends here
                  /\ pc' = "ocioso"
                  /\ actual' = <<>>
                  /\ alerta' = "excepcion"
                  /\ abortos' = abortos + 1
                  /\ transcurrido' = 0
             ELSE /\ pc' = "diferenciada"
                  /\ actual' = <<[item |-> item, permisos |-> local]>>
                  /\ UNCHANGED <<alerta, abortos, transcurrido>>
    /\ UNCHANGED <<variante, permisosDrive, colaExiste, cola,
                   encolados, borrados, varsSalida, varsPuro, varsFallas, varsConcurrentes>>

\* The files directly under the folder are diffed against the folder's set.
PasoArchivos ==
    /\ pc = "diferenciada"
    /\ LET a == actual[1]
           fs == Archivos(a.item.id)
       IN /\ reporte' = DiffArchivos(variante, fs, a.permisos, reporte, permisosDrive)
          /\ visitas' = MasTodos(visitas, fs)
    /\ pc' = "archivos"
    /\ UNCHANGED <<variante, permisosDrive, colaExiste, cola, actual, transcurrido,
                   alerta, abortos, encolados, borrados, varsSalida, varsPuro, varsFallas, varsConcurrentes>>

\* A mutant of the enqueue: the sub-folders are inserted above the front row.
PasoEncolarAlFrente ==
    /\ pc = "archivos"
    /\ LET a == actual[1]
           hijos == SubCarpetas(a.item.id)
       IN /\ cola' = FilasHijas(variante, hijos, a.permisos) \o cola
          /\ encolados' = MasTodos(encolados, hijos)
    /\ pc' = "encolada"
    /\ UNCHANGED <<variante, permisosDrive, colaExiste, reporte, actual,
                   transcurrido, alerta, abortos, visitas, borrados,
                   varsSalida, varsPuro, varsFallas, varsConcurrentes>>
\* A mutant of the enqueue: the files of the folder are given rows as well.
PasoEncolarConArchivos ==
    /\ pc = "archivos"
    /\ LET a == actual[1]
           hijos == SubCarpetas(a.item.id) \o Archivos(a.item.id)
       IN /\ cola' = cola \o FilasHijas(variante, hijos, a.permisos)
          /\ encolados' = MasTodos(encolados, hijos)
    /\ pc' = "encolada"
    /\ UNCHANGED <<variante, permisosDrive, colaExiste, reporte, actual,
                   transcurrido, alerta, abortos, visitas, borrados,
                   varsSalida, varsPuro, varsFallas, varsConcurrentes>>
\* A mutant of the listing: what was read before the iterator threw is kept.
ListadasParcial(p) ==
    IF p \in listadoFalla /\ Len(SubCarpetas(p)) > 0
    THEN <<Head(SubCarpetas(p))>> ELSE SubCarpetas(p)
\* The sub-folders whose rows reach setValues: the rows are collected in a
\* local array inside the try block, and when the iterator throws, after
\* however many sub-folders, the catch leaves the array unwritten.
Listadas(p) == IF p \in listadoFalla THEN <<>> ELSE SubCarpetas(p)

\* A mutant of the enqueue: the sub-folders are inserted just below the front row.
PasoEncolarTrasFrente ==
    /\ pc = "archivos"
    /\ LET a == actual[1]
           hijos == Listadas(a.item.id)
       IN /\ cola' = <<Head(cola)>> \o FilasHijas(variante, hijos, a.permisos)
                         \o Tail(cola)
          /\ encolados' = MasTodos(encolados, hijos)
    /\ pc' = "encolada"
    /\ UNCHANGED <<variante, permisosDrive, colaExiste, reporte, actual,
                   transcurrido, alerta, abortos, visitas, borrados,
                   varsSalida, varsPuro, varsFallas, varsConcurrentes>>
\* The sub-folders are appended below the last row in one setValues call.
PasoEncolar ==
    /\ pc = "archivos"
    /\ LET a == actual[1]
           hijos == Listadas(a.item.id)
       IN /\ cola' = cola \o FilasHijas(variante, hijos, a.permisos)
          /\ encolados' = MasTodos(encolados, hijos)
    /\ pc' = "encolada"
    /\ UNCHANGED <<variante, permisosDrive, colaExiste, reporte, actual,
                   transcurrido, alerta, abortos, visitas, borrados,
                   varsSalida, varsPuro, varsFallas, varsConcurrentes>>

\* A mutant of the removal: the last row is deleted.
PasoBorrarUltima ==
    /\ pc = "encolada"
    /\ cola' = SubSeq(cola, 1, Len(cola) - 1)
    /\ borrados' = Mas1(borrados, cola[Len(cola)].id)
    /\ pc' = "bucle"
    /\ actual' = <<>>
    /\ UNCHANGED <<variante, permisosDrive, colaExiste, reporte, transcurrido,
                   alerta, abortos, visitas, encolados, varsSalida, varsPuro,
                   varsFallas, varsConcurrentes>>
\* deleteRow(2): the processed row leaves the front.
PasoBorrar ==
    /\ pc = "encolada"
    /\ cola' = Tail(cola)
    /\ borrados' = Mas1(borrados, Head(cola).id)
    /\ pc' = "bucle"
    /\ actual' = <<>>
    /\ UNCHANGED <<variante, permisosDrive, colaExiste, reporte, transcurrido,
                   alerta, abortos, visitas, encolados, varsSalida, varsPuro, varsFallas, varsConcurrentes>>

\* The platform ends the running invocation (execution-time limit of the
\* account, or a service error that no try block of the loop covers).
Abortar ==
    /\ pc \in {"diferenciada", "archivos", "encolada"}
    /\ abortos < MaxAbortos
    /\ pc' = "ocioso"
    /\ actual' = <<>>
    /\ alerta' = "excepcion"
    /\ abortos' = abortos + 1
    /\ transcurrido' = 0
    /\ UNCHANGED <<variante, permisosDrive, colaExiste, cola, reporte,
                   visitas, encolados, borrados, varsSalida, varsPuro, varsFallas, varsConcurrentes>>

NextSesiones ==
    \/ Limpiar
    \/ IniciarCancelada
    \/ IniciarErrorRaiz
    \/ IniciarOk
    \/ ContinuarSinCola
    \/ Continuar
    \/ PasaTiempo
    \/ Pausa
    \/ Completar
    \/ PasoCarpeta
    \/ PasoArchivos
    \/ PasoEncolar
    \/ PasoBorrar

\* Sessions end only by pause, completion or an exception of the code itself.
SpecSesiones == Init /\ [][NextSesiones]_vars

Next ==
    \/ NextSesiones
    \/ Abortar

\* The same, and the platform may end an invocation in mid-entry.
Spec == Init /\ [][Next]_vars

(***************************************************************************)
(* The audit run to completion in one uninterrupted session, from a given  *)
(* queue and report: the report it ends with.  An uncaught exception ends  *)
(* the run where it is thrown.                                             *)
(***************************************************************************)
RECURSIVE CorridaCompleta(_, _, _, _)
CorridaCompleta(var, drive, q, rep) ==
    IF q = <<>> THEN rep
    ELSE LET item == Head(q)
             local == Normalizar(var, drive[item.id])
             d == DiffCarpeta(var, item, local, rep)
         IN IF d.excepcion # "" THEN d.reporte
            ELSE CorridaCompleta(var, drive,
                     Tail(q) \o FilasHijas(var, SubCarpetas(item.id), local),
                     DiffArchivos(var, Archivos(item.id), local, d.reporte, drive))

ColaInicial(var, drive) ==
    <<FilaCola(Raiz, Raiz, Url(Raiz), Stringify(var, Normalizar(var, drive[Raiz])), TRUE)>>
ReporteDeUnaSesion == CorridaCompleta(variante, permisosDrive,
                                      ColaInicial(variante, permisosDrive), BloqueRaiz)

\* The multiset of the rows of a report.
Bolsa(rep) == [f \in Rango(rep) |-> Cardinality({i \in DOMAIN rep : rep[i] = f})]

\* An audit whose root was enqueued is under way on the persisted queue.
AuditoriaEnCurso == colaExiste /\ encolados[Raiz] > 0

(***************************************************************************)
(* C1  Idempotent resumption.  With sessions that end only on the deadline *)
(* (or complete), whatever the points of the pauses: at every loop top and *)
(* between sessions, finishing the audit from the persisted queue gives    *)
(* the multiset of rows of the one-session audit; and the report of an     *)
(* audit that has signalled success is that multiset.                      *)
(***************************************************************************)
C1_ResumenIdempotente ==
    /\ (AuditoriaEnCurso /\ pc \in {"ocioso", "bucle"})
         => Bolsa(CorridaCompleta(variante, permisosDrive, cola, reporte))
              = Bolsa(ReporteDeUnaSesion)
    /\ (alerta = "exito" /\ encolados[Raiz] > 0)
         => Bolsa(reporte) = Bolsa(ReporteDeUnaSesion)

\* A session paused on the deadline with work done and work pending.
C1_Witness ==
    /\ AuditoriaEnCurso /\ pc = "ocioso" /\ alerta = "pausa"
    /\ Len(cola) > 0
    /\ Len(reporte) > Len(BloqueRaiz)
    /\ Len(ReporteDeUnaSesion) > Len(reporte)

(***************************************************************************)
(* C2  No duplicate visits.  In an audit none of whose sessions ended by   *)
(* an exception or a kill (they ended in pause or completion), every node  *)
(* is diffed at most once and its row is deleted at most once.             *)
(***************************************************************************)
C2_SinVisitasDuplicadas ==
    abortos = 0 => \A n \in Nodos : visitas[n] <= 1 /\ borrados[n] <= 1

\* A session resumed after a pause has emptied the queue: every node was
\* visited, every folder's row deleted.
C2_Witness ==
    /\ abortos = 0 /\ alerta = "pausa" /\ pc = "bucle" /\ cola = <<>>
    /\ \A n \in Nodos : visitas[n] = 1
    /\ \A n \in Nodos : EsCarpeta(n) => borrados[n] = 1

(***************************************************************************)
(* C3  Interrupted sessions are safe to resume: whatever the step at which *)
(* an invocation was ended, no node is visited twice, no child is enqueued *)
(* twice and no row is written twice.                                      *)
(***************************************************************************)
SinFilasRepetidas(rep) == \A i, j \in DOMAIN rep : rep[i] = rep[j] => i = j

C3_InterrupcionSegura ==
    /\ \A n \in Nodos : visitas[n] <= 1
    /\ \A n \in Nodos : encolados[n] <= 1
    /\ SinFilasRepetidas(reporte)

(***************************************************************************)
(* C4  BFS order.  As claimed: a child folder has a row in the queue only  *)
(* once the row of its parent was deleted.                                 *)
(***************************************************************************)
CarpetasHijas == {n \in Nodos : n # Raiz /\ EsCarpeta(n)}

ComoConjuntos(crudo) ==
    [editores       |-> Rango(EditoresLeidos(crudo)),
     visualizadores |-> Rango(VisualizadoresFinales(crudo)),
     accesoPublico  |-> AccesoPublicoDe(crudo),
     accesoDominio  |-> AccesoDominioDe(crudo)]
Diverge(n) == ComoConjuntos(permisosDrive[n]) # ComoConjuntos(permisosDrive[Padre(n)])

EsFilaDeError(f) == Len(f.texto) > 0 /\ f.texto[1].etiqueta = "ERROR"
TiposDeHallazgo == {"Carpeta", "Archivo", "Carpeta Plegable", "Documento Unitario"}
HallazgosDe(n) ==
    {i \in DOMAIN reporte :
        /\ reporte[i].ruta = n
        /\ reporte[i].tipo \in TiposDeHallazgo
        /\ ~EsFilaDeError(reporte[i])}

C5_CoberturaCompleta ==
    (alerta = "exito" /\ encolados[Raiz] > 0)
        => \A n \in Nodos \ {Raiz} : (HallazgosDe(n) # {}) <=> Diverge(n)

(***************************************************************************)
(* The diff engine on its own: the arguments are drawn from the permission *)
(* sets that normalisation can produce, and the call appends to an empty   *)
(* sheet.                                                                  *)
(***************************************************************************)
Enlaces == {<<"PRIVATE", "NONE">>, <<"ANYONE_WITH_LINK", "VIEW">>, <<"DOMAIN", "EDIT">>}
CrudosDiff ==
    {Crudo(ed, vi, e[1], e[2], {}) :
        ed \in SeqHasta2(Identidades), vi \in SeqHasta2(Identidades), e \in Enlaces}

AuditoriaEnReposo ==
    /\ permisosDrive = [n \in Nodos |-> CrudoBase]
    /\ colaExiste = FALSE
    /\ cola = <<>>
    /\ reporte = <<>>
    /\ pc = "ocioso"
    /\ actual = <<>>
    /\ transcurrido = 0
    /\ alerta = "ninguna"
    /\ abortos = 0
    /\ visitas = Cero
    /\ encolados = Cero
    /\ borrados = Cero

InitDiff ==
    /\ variante \in {"legacy", "modular"}
    /\ AuditoriaEnReposo
    /\ SalidaEnReposo
    /\ entrada \in {<<[padre |-> p, hijo |-> h]>> : p, h \in CrudosDiff}
    /\ salida = <<>>
    /\ SinFallas
    /\ ConcurrentesEnReposo

\* What one call of the diff does to an empty sheet, the access text it builds
\* when it detects a difference (<<>> when it does not), what it returns (the
\* kind of the value) and what it throws.
LlamarDiff(var, padre, hijo) ==
    IF var = "legacy"
    THEN [hoja |-> logDifferences(padre, hijo, "ruta", "url", "Archivo", <<>>,
                                  DominioSesion),
          texto |-> IF differencesFound(padre, hijo)
                    THEN userList(hijo, DominioSesion) ELSE <<>>,
          valor |-> "undefined",
          excepcion |-> ""]
    ELSE LET r == registrarDiferenciasPermisos(padre, hijo, "ruta", "url",
                      "Documento Unitario", SextoArgumentoModular)
         IN [hoja |-> <<>>,
             texto |-> IF diferenciasDetectadas(padre, hijo)
                       THEN usuariosTexto(hijo, SextoArgumentoModular) ELSE <<>>,
             valor |-> r.valor, excepcion |-> r.excepcion]

AplicarDiff ==
    /\ salida = <<>>
    /\ Len(entrada) = 1
    /\ salida' = <<LlamarDiff(variante, Normalizar(variante, entrada[1].padre),
                              Normalizar(variante, entrada[1].hijo))>>
    /\ UNCHANGED <<varsAuditoria, varsSalida, entrada, varsFallas, varsConcurrentes>>

NextDiff == AplicarDiff
SpecDiff == InitDiff /\ [][NextDiff]_vars

(***************************************************************************)
(* C6  Inheritance-neutral baseline.  When the child has the same set of   *)
(* editors, the same set of viewers, the same public and the same domain   *)
(* access as its baseline, in whatever order the identities are listed,    *)
(* the diff appends no row and throws nothing.                             *)
(***************************************************************************)
C6_BaseNeutral ==
    (salida # <<>> /\ ComoConjuntos(entrada[1].padre) = ComoConjuntos(entrada[1].hijo))
        => (salida[1].hoja = <<>> /\ salida[1].excepcion = "")

\* The diff has run on two equal sets whose editors are listed in different orders.
C6_Witness ==
    /\ salida # <<>>
    /\ ComoConjuntos(entrada[1].padre) = ComoConjuntos(entrada[1].hijo)
    /\ EditoresLeidos(entrada[1].padre) # EditoresLeidos(entrada[1].hijo)
    /\ Len(EditoresLeidos(entrada[1].hijo)) = 2

(***************************************************************************)
(* C7  Disjointness.  Every permission set computed for the entry being    *)
(* processed, and every set stored in or read back from a queue row, has   *)
(* no identity in both editors and viewers.                                *)
(***************************************************************************)
EditoresDe(var, p) == IF var = "legacy" THEN p.editors ELSE p.editores
VisualizadoresDe(var, p) == IF var = "legacy" THEN p.viewers ELSE p.visualizadores
Disjunto(var, p) == Rango(EditoresDe(var, p)) \cap Rango(VisualizadoresDe(var, p)) = {}

C7_Disjuntos ==
    /\ \A i \in DOMAIN cola : Disjunto(variante, Parse(variante, cola[i].cache))
    /\ \A i \in DOMAIN actual : Disjunto(variante, actual[i].permisos)

\* A queue row caches the set of a folder that lists alice as editor and viewer.
C7_Witness ==
    \E i \in DOMAIN cola :
        /\ ~cola[i].raiz
        /\ Includes(permisosDrive[Padre(cola[i].id)].editors, "alice")
        /\ Includes(permisosDrive[Padre(cola[i].id)].viewers, "alice")
        /\ VisualizadoresDe(variante, Parse(variante, cola[i].cache)) = <<"bob">>
        /\ EditoresDe(variante, Parse(variante, cola[i].cache)) = <<"alice">>

(***************************************************************************)
(* Output partitioner: volcarHallazgoAPaginacion.  A spreadsheet id is its *)
(* index in `paginas` (0: none); a page is the sequence of its rows.       *)
(***************************************************************************)
CABECERAS_REPORTE_TECNICO == Fila("Ruta Escaneada", "Enlace", "Tipo (Doc/Folder)", <<>>)
FilasDePrueba ==
    {Fila(1, Url(1), "Carpeta Plegable", SoloHerencia),
     Fila(4, Url(4), "Documento Unitario", SoloHerencia)}

\* Step 1 of the function: whether a new spreadsheet is needed.
NecesitaHoja(estado) ==
    estado.idSheet = 0 \/ estado.filaActual >= LIMITE_FILAS_POR_HOJA_REPORTE

\* The call when every service call succeeds: [estado, paginas].
volcarHallazgoAPaginacion(estado, pags, datosFila) ==
    LET pags1 == IF NecesitaHoja(estado)
                 THEN Append(pags, <<CABECERAS_REPORTE_TECNICO>>) ELSE pags
        est1 == IF NecesitaHoja(estado)
                THEN [idSheet |-> Len(pags1), filaActual |-> 2,
                      parteActual |-> estado.parteActual + 1]
                ELSE estado
    IN [estado  |-> [est1 EXCEPT !.filaActual = @ + 1],
        paginas |-> [pags1 EXCEPT ![est1.idSheet] = Append(@, datosFila)]]

InitSalida ==
    /\ variante = "modular"
    /\ AuditoriaEnReposo
    /\ SalidaEnReposo
    /\ PuroEnReposo
    /\ SinFallas
    /\ ConcurrentesEnReposo

Volcar ==
    /\ exitos <= LIMITE_FILAS_POR_HOJA_REPORTE
    /\ \E datosFila \in FilasDePrueba :
          LET r == volcarHallazgoAPaginacion(estadoActual, paginas, datosFila)
          IN /\ estadoActual' = r.estado
             /\ paginas' = r.paginas
    /\ exitos' = exitos + 1
    /\ UNCHANGED <<varsAuditoria, varsPuro, varsFallas, varsConcurrentes>>

NextSalida == Volcar
SpecSalida == InitSalida /\ [][NextSalida]_vars

(***************************************************************************)
(* C8  Partition rollover.  With capacity C and no current page at first,  *)
(* after C+1 successful write calls exactly 2 pages exist and the second   *)
(* holds its header row and exactly 1 data row.                            *)
(***************************************************************************)
C8_Rebase ==
    exitos = LIMITE_FILAS_POR_HOJA_REPORTE + 1
        => (Len(paginas) = 2 /\ Len(paginas[2]) = 2)

(***************************************************************************)
(* C9  Deadline pause changes nothing.  The step that ends a session on    *)
(* the deadline is taken at the top of the loop with entries pending, and  *)
(* it leaves the queue, its order, the report and the history of visits,   *)
(* enqueues and deletions as they were.                                    *)
(***************************************************************************)
PasoDePausa == pc # "ocioso" /\ pc' = "ocioso" /\ alerta' = "pausa"

C9_PausaNoCambiaNada ==
    [][PasoDePausa =>
          /\ pc = "bucle"
          /\ actual = <<>>
          /\ Len(cola) > 0
          /\ colaExiste /\ colaExiste'
          /\ cola' = cola
          /\ reporte' = reporte
          /\ visitas' = visitas
          /\ encolados' = encolados
          /\ borrados' = borrados]_vars

\* A session has paused with several entries pending and rows already written.
C9_Witness ==
    /\ pc = "ocioso" /\ alerta = "pausa" /\ colaExiste
    /\ Len(cola) >= 2
    /\ Len(reporte) > Len(BloqueRaiz)

(***************************************************************************)
(* C10  Completion.  A step that surfaces the success signal is taken with *)
(* no pending entry and deletes the queue; and while there is no queue,    *)
(* every step other than a start or a clear (a resume, then) leaves the    *)
(* report and the history of visits unchanged, starts no session and       *)
(* creates no queue.                                                       *)
(***************************************************************************)
PasoDeExito == pc # "ocioso" /\ pc' = "ocioso" /\ alerta' = "exito"
PasoDeInicio == alerta' \in {"iniciada", "errorRaiz", "cancelada", "limpiado"}

C10_Terminacion ==
    [][/\ PasoDeExito => (colaExiste /\ Len(cola) = 0 /\ ~colaExiste' /\ cola' = <<>>)
       /\ (~colaExiste /\ ~PasoDeInicio)
            => (/\ ~colaExiste' /\ pc' = "ocioso"
                /\ reporte' = reporte
                /\ visitas' = visitas /\ encolados' = encolados
                /\ borrados' = borrados)]_vars

\* After the success signal a resume was invoked and found no queue.
C10_Witness ==
    /\ alerta = "sinCola" /\ ~colaExiste /\ pc = "ocioso"
    /\ \A n \in Nodos : visitas[n] = 1
    /\ Len(reporte) > Len(BloqueRaiz)

(***************************************************************************)
(* C11  Start fails fast.  After a start that could not access the root,   *)
(* the persisted state is what a clear leaves: no queue sheet exists; and  *)
(* no entry has been processed.                                            *)
(***************************************************************************)
C11_InicioFallidoSinCola ==
    alerta = "errorRaiz"
        => (/\ ~colaExiste /\ cola = <<>>
            /\ \A n \in Nodos : visitas[n] = 0)

(***************************************************************************)
(* Two invocations of continuarAuditoria / processQueue at once.  Neither  *)
(* edition takes a lock, and the platform runs invocations started from    *)
(* two browser windows of the same spreadsheet side by side.  Each         *)
(* invocation keeps its own locals and works on the one queue sheet.  The  *)
(* audit has been started and its first session has paused at once.       *)
(***************************************************************************)
InitConcurrente ==
    /\ variante \in {"legacy", "modular"}
    /\ permisosDrive \in Drives
    /\ colaExiste = TRUE
    /\ cola = ColaInicial(variante, permisosDrive)
    /\ reporte = BloqueRaiz
    /\ pc = "ocioso"
    /\ actual = <<>>
    /\ transcurrido = 0
    /\ alerta = "pausa"
    /\ abortos = 0
    /\ visitas = Cero
    /\ encolados = Mas1(Cero, Raiz)
    /\ borrados = Cero
    /\ SalidaEnReposo
    /\ PuroEnReposo
    /\ SinFallas
    /\ ConcurrentesEnReposo

\* The menu entry is invoked, once in each window: the queue sheet is looked up.
Entrar(s) ==
    /\ pcs[s] = "ocioso"
    /\ colaExiste
    /\ pcs' = [pcs EXCEPT ![s] = "bucle"]
    /\ UNCHANGED <<varsAuditoria, varsSalida, varsPuro, varsFallas, actuales>>

\* Row 2 is read; the folder and its files are diffed.
LeerYDiferenciar(s) ==
    /\ pcs[s] = "bucle"
    /\ colaExiste
    /\ Len(cola) > 0
    /\ LET item == Head(cola)
           local == Normalizar(variante, permisosDrive[item.id])
           d == DiffCarpeta(variante, item, local, reporte)
           fs == Archivos(item.id)
       IN IF d.excepcion # ""
          THEN /\ reporte' = d.reporte
               /\ visitas' = Mas1(visitas, item.id)
               /\ pcs' = [pcs EXCEPT ![s] = "fin"]
               /\ actuales' = [actuales EXCEPT ![s] = <<>>]
               /\ alerta' = "excepcion"
          ELSE /\ reporte' = DiffArchivos(variante, fs, local, d.reporte, permisosDrive)
               /\ visitas' = MasTodos(Mas1(visitas, item.id), fs)
               /\ pcs' = [pcs EXCEPT ![s] = "archivos"]
               /\ actuales' = [actuales EXCEPT ![s] = <<[item |-> item, permisos |-> local]>>]
               /\ UNCHANGED alerta
    /\ UNCHANGED <<variante, permisosDrive, colaExiste, cola, pc, actual, transcurrido,
                   abortos, encolados, borrados, varsSalida, varsPuro, varsFallas>>

\* setValues below the last row; a failure here is caught and only logged.
EncolarHijas(s) ==
    /\ pcs[s] = "archivos"
    /\ LET a == actuales[s][1]
           hijos == SubCarpetas(a.item.id)
       IN IF colaExiste
          THEN /\ cola' = cola \o FilasHijas(variante, hijos, a.permisos)
               /\ encolados' = MasTodos(encolados, hijos)
          ELSE UNCHANGED <<cola, encolados>>
    /\ pcs' = [pcs EXCEPT ![s] = "encolada"]
    /\ UNCHANGED <<variante, permisosDrive, colaExiste, reporte, pc, actual, transcurrido,
                   alerta, abortos, visitas, borrados, varsSalida, varsPuro, varsFallas,
                   actuales>>

\* deleteRow(2): whatever row is second on the sheet now.  On a sheet with
\* the header alone the blank second row is deleted.
BorrarFila2(s) ==
    /\ pcs[s] = "encolada"
    /\ colaExiste
    /\ IF Len(cola) > 0
       THEN /\ cola' = Tail(cola)
            /\ borrados' = Mas1(borrados, Head(cola).id)
       ELSE UNCHANGED <<cola, borrados>>
    /\ pcs' = [pcs EXCEPT ![s] = "bucle"]
    /\ actuales' = [actuales EXCEPT ![s] = <<>>]
    /\ UNCHANGED <<variante, permisosDrive, colaExiste, reporte, pc, actual, transcurrido,
                   alerta, abortos, visitas, encolados, varsSalida, varsPuro, varsFallas>>

\* The loop ends with the header alone: clear, then the success alert.
CompletarSesion(s) ==
    /\ pcs[s] = "bucle"
    /\ colaExiste
    /\ Len(cola) = 0
    /\ colaExiste' = FALSE
    /\ cola' = <<>>
    /\ pcs' = [pcs EXCEPT ![s] = "fin"]
    /\ alerta' = "exito"
    /\ UNCHANGED <<variante, permisosDrive, reporte, pc, actual, transcurrido, abortos,
                   visitas, encolados, borrados, varsSalida, varsPuro, varsFallas,
                   actuales>>

\* The other invocation has deleted the queue sheet: getLastRow / deleteRow
\* on the stale sheet object throws, outside every try block.
SesionSinHoja(s) ==
    /\ pcs[s] \in {"bucle", "encolada"}
    /\ ~colaExiste
    /\ pcs' = [pcs EXCEPT ![s] = "fin"]
    /\ actuales' = [actuales EXCEPT ![s] = <<>>]
    /\ alerta' = "excepcion"
    /\ UNCHANGED <<variante, permisosDrive, colaExiste, cola, reporte, pc, actual,
                   transcurrido, abortos, visitas, encolados, borrados,
                   varsSalida, varsPuro, varsFallas>>

NextConcurrente ==
    \E s \in Sesiones :
        \/ Entrar(s)
        \/ LeerYDiferenciar(s)
        \/ EncolarHijas(s)
        \/ BorrarFila2(s)
        \/ CompletarSesion(s)
        \/ SesionSinHoja(s)

SpecConcurrente == InitConcurrente /\ [][NextConcurrente]_vars

(***************************************************************************)
(* C12  Sessions cannot overlap.  With two resume invocations started at   *)
(* the same time, no entry is processed by both (no node is visited        *)
(* twice), and no row leaves the queue without having been processed (a    *)
(* node's row is deleted no more often than the node was visited).         *)
(***************************************************************************)
C12_SinSolape ==
    /\ \A n \in Nodos : visitas[n] <= 1
    /\ \A n \in Nodos : borrados[n] <= visitas[n]

(***************************************************************************)
(* C13  Error containment.  With the platform never ending an invocation   *)
(* from outside, no invocation ends by an exception: whatever fails while  *)
(* an entry is processed is caught, and the session goes on to a pause or  *)
(* to completion.                                                          *)
(***************************************************************************)
C13_ErroresContenidos ==
    /\ alerta # "excepcion"
    /\ abortos = 0

(***************************************************************************)
(* C14  Traversal state machine.  The state of the audit, read off the     *)
(* running invocation and the way the last one ended.  A start or a clear  *)
(* begins a new audit and a resume that finds no queue is refused; of the  *)
(* other steps, each leaves the state as it is or takes one of             *)
(*   Idle -> Running, Running -> Paused, Running -> Completed,             *)
(*   Running -> Failed, Paused -> Running.                                 *)
(***************************************************************************)
Estado ==
    IF pc # "ocioso" THEN "Running"
    ELSE IF alerta = "pausa" THEN "Paused"
    ELSE IF alerta = "exito" THEN "Completed"
    ELSE IF alerta \in {"errorRaiz", "excepcion"} THEN "Failed"
    ELSE "Idle"

TransicionesPermitidas ==
    {<<"Idle", "Running">>, <<"Running", "Paused">>, <<"Running", "Completed">>,
     <<"Running", "Failed">>, <<"Paused", "Running">>}

PasoDeNuevaAuditoria ==
    /\ pc = "ocioso"
    /\ \/ pc' = "bucle" /\ alerta' = "iniciada"
       \/ pc' = "ocioso" /\ alerta' \in {"errorRaiz", "cancelada", "limpiado"}
ResumenRechazado == pc = "ocioso" /\ pc' = "ocioso" /\ alerta' = "sinCola"

C14_MaquinaDeEstados ==
    [][(~PasoDeNuevaAuditoria /\ ~ResumenRechazado)
          => (Estado' = Estado \/ <<Estado, Estado'>> \in TransicionesPermitidas)]_vars

(***************************************************************************)
(* C15  registrarDiferenciasPermisos returns the row [ruta, url, tipo,     *)
(* usuariosTexto] when the child's permissions differ from the parent's    *)
(* and null when they do not, for every pair of permission sets.           *)
(***************************************************************************)
C15_DevuelveFilaONull ==
    (variante = "modular" /\ salida # <<>>)
        => /\ salida[1].excepcion = ""
           /\ salida[1].valor =
                  IF diferenciasDetectadas(obtenerConjuntoPermisos(entrada[1].padre),
                                           obtenerConjuntoPermisos(entrada[1].hijo))
                  THEN "array" ELSE "null"

(***************************************************************************)
(* C16  Exactly one root entry.  A successful start leaves the queue with  *)
(* the root row alone, flagged as root, whatever it held before; the rows  *)
(* the traversal appends are not flagged; a row is flagged exactly when it *)
(* is the root's, and at most one row is; the step that visits the root    *)
(* writes nothing to the report and throws nothing, and the report never   *)
(* holds a difference Finding for the root.                                *)
(***************************************************************************)
PasoDeInicioLogrado == pc = "ocioso" /\ pc' = "bucle" /\ alerta' = "iniciada"
FilasRaiz(q) == {i \in DOMAIN q : q[i].raiz}

C16_UnaSolaRaiz ==
    [][/\ PasoDeInicioLogrado
            => (Len(cola') = 1 /\ cola'[1].id = Raiz /\ cola'[1].raiz = TRUE)
       /\ (pc # "ocioso" /\ Len(cola') > Len(cola))
            => \A i \in (Len(cola) + 1)..Len(cola') : cola'[i].raiz = FALSE
       /\ \A i \in DOMAIN cola' : cola'[i].raiz <=> cola'[i].id = Raiz
       /\ Cardinality(FilasRaiz(cola')) <= 1
       /\ visitas'[Raiz] > visitas[Raiz]
            => (Head(cola).raiz /\ reporte' = reporte /\ alerta' = alerta)
       /\ HallazgosDe(Raiz)' = {}]_vars

\* The root was visited and removed; the queue holds its sub-folders, none
\* flagged, and a session is at the top of its loop.
C16_Witness ==
    /\ pc = "bucle"
    /\ visitas[Raiz] = 1 /\ borrados[Raiz] = 1
    /\ Len(cola) >= 2
    /\ \A i \in DOMAIN cola : ~cola[i].raiz

(***************************************************************************)
(* The drive changes while the audit is under way: somebody changes the    *)
(* grants of a folder some of whose sub-folders wait in the queue.         *)
(***************************************************************************)
PadresEnEspera == {Padre(cola[i].id) : i \in {j \in DOMAIN cola : ~cola[j].raiz}}

CambiarPermisos ==
    /\ \E n \in PadresEnEspera :
          \E c \in OpcionesCrudo(n) \ {permisosDrive[n]} :
              permisosDrive' = [permisosDrive EXCEPT ![n] = c]
    /\ UNCHANGED <<variante, colaExiste, cola, reporte, pc, actual, transcurrido,
                   alerta, abortos, visitas, encolados, borrados,
                   varsSalida, varsPuro, varsFallas, varsConcurrentes>>

NextCambios ==
    \/ NextSesiones
    \/ CambiarPermisos

SpecCambios == Init /\ [][NextCambios]_vars

(***************************************************************************)
(* C17  Snapshot baseline.  The set computed for the entry in hand is the  *)
(* normalisation of its folder's grants at that step; every row appended   *)
(* for a sub-folder caches exactly that set; a row is never altered while  *)
(* it waits; and when a non-root entry is visited, a difference is         *)
(* registered exactly when the folder's own set differs, as sets, from the *)
(* set cached in its row, whatever the parent grants by then.              *)
(***************************************************************************)
PublicoDe(var, p) == IF var = "legacy" THEN p.publicAccess ELSE p.accesoPublico
DominioDe(var, p) == IF var = "legacy" THEN p.domainAccess ELSE p.accesoDominio
ConjuntoDe(var, p) ==
    [editores       |-> Rango(EditoresDe(var, p)),
     visualizadores |-> Rango(VisualizadoresDe(var, p)),
     accesoPublico  |-> PublicoDe(var, p),
     accesoDominio  |-> DominioDe(var, p)]

PasoDeVisita == pc = "bucle" /\ Len(cola) > 0 /\ visitas' # visitas
PasoDeEncolado == pc = "archivos" /\ pc' = "encolada"
\* The visit registered a difference: a row in the legacy edition, the
\* exception of the unbound sheet in the modular one.
RegistroDiferencia ==
    IF variante = "legacy"
    THEN Len(reporte') = Len(reporte) + 1
            /\ reporte'[Len(reporte')].ruta = Head(cola).id
            /\ ~EsFilaDeError(reporte'[Len(reporte')])
    ELSE alerta' = "excepcion" /\ pc' = "ocioso"

C17_BaseInstantanea ==
    [][/\ (PasoDeVisita /\ pc' = "diferenciada")
            => actual'[1].permisos
                 = Normalizar(variante, permisosDrive[Head(cola).id])
       /\ PasoDeEncolado
            => /\ SubSeq(cola', 1, Len(cola)) = cola
               /\ \A i \in (Len(cola) + 1)..Len(cola') :
                     /\ cola'[i].cache = Stringify(variante, actual[1].permisos)
                     /\ Padre(cola'[i].id) = actual[1].item.id
       /\ ~PasoDeEncolado
            => \/ cola' = cola
               \/ Len(cola) > 0 /\ cola' = Tail(cola)
               \/ PasoDeNuevaAuditoria
       /\ (PasoDeVisita /\ ~Head(cola).raiz)
            => (RegistroDiferencia
                  <=> ConjuntoDe(variante, Parse(variante, Head(cola).cache))
                        # ConjuntoDe(variante,
                                     Normalizar(variante, permisosDrive[Head(cola).id])))
      ]_vars

\* A sub-folder has just been visited whose cached baseline is no longer what
\* its parent grants: it agrees with the parent as it is now, and a difference
\* against the cached set was written all the same.
C17_Witness ==
    /\ variante = "legacy" /\ pc = "diferenciada"
    /\ ~actual[1].item.raiz
    /\ Parse(variante, actual[1].item.cache)
         # Normalizar(variante, permisosDrive[Padre(actual[1].item.id)])
    /\ ~Diverge(actual[1].item.id)
    /\ Len(reporte) > 0
    /\ reporte[Len(reporte)].ruta = actual[1].item.id

(***************************************************************************)
(* C18  Leaves are terminal.  Every row of the queue refers to a folder.   *)
(* Within one audit (a start or a clear begins a new one), a file is       *)
(* diffed only in the step that handles the files of its parent            *)
(* folder, once in that step, and that step diffs every file directly      *)
(* under the folder: a row for the file is written exactly when its set    *)
(* differs, as sets, from the set computed for the folder in this visit.   *)
(* In an audit none of whose sessions was cut short, a file whose parent   *)
(* has left the queue has been diffed exactly once.                        *)
(***************************************************************************)
Hojas == {n \in Nodos : ~EsCarpeta(n)}
FilasPara(rep, n) == Cardinality({i \in DOMAIN rep : rep[i].ruta = n})
PasoDeArchivos == pc = "diferenciada" /\ pc' = "archivos"

InitFallas ==
    /\ InitAuditoria
    /\ SalidaEnReposo
    /\ PuroEnReposo
    /\ rotos \in SUBSET CarpetasHijas
    /\ listadoFalla = {}
    /\ ConcurrentesEnReposo

\* Somebody edits the cache cell of a waiting row.
Corromper ==
    /\ colaExiste
    /\ \E i \in DOMAIN cola :
          /\ Decodificable(cola[i].cache)
          /\ (i = 1 => pc \in {"ocioso", "bucle"})
          /\ cola' = [cola EXCEPT ![i].cache = CeldaCorrupta]
    /\ UNCHANGED <<variante, permisosDrive, colaExiste, reporte, pc, actual,
                   transcurrido, alerta, abortos, visitas, encolados, borrados,
                   varsSalida, varsPuro, varsFallas, varsConcurrentes>>

TipoIrresoluble == IF variante = "legacy" THEN "Carpeta" ELSE "Folder Ciego"

\* A mutant of the unresolvable node: the row is left at the front.
PasoIrresolubleReintenta ==
    /\ pc = "bucle"
    /\ Len(cola) > 0
    /\ ~(transcurrido > PresupuestoMS)
    /\ Decodificable(Head(cola).cache)
    /\ Head(cola).id \in rotos
    /\ FilasPara(reporte, Head(cola).ruta) = 0
    /\ reporte' = Append(reporte, Fila(Head(cola).ruta, Head(cola).url,
                                       TipoIrresoluble, TextoError("getFolderById")))
    /\ UNCHANGED <<variante, permisosDrive, colaExiste, cola, pc, actual,
                   transcurrido, alerta, abortos, visitas, encolados, borrados,
                   varsSalida, varsPuro, varsFallas, varsConcurrentes>>
\* getFolderById throws: an error row, deleteRow(2), continue.
PasoIrresoluble ==
    /\ pc = "bucle"
    /\ Len(cola) > 0
    /\ ~(transcurrido > PresupuestoMS)
    /\ Decodificable(Head(cola).cache)
    /\ Head(cola).id \in rotos
    /\ reporte' = Append(reporte, Fila(Head(cola).ruta, Head(cola).url,
                                       TipoIrresoluble, TextoError("getFolderById")))
    /\ cola' = Tail(cola)
    /\ borrados' = Mas1(borrados, Head(cola).id)
    /\ UNCHANGED <<variante, permisosDrive, colaExiste, pc, actual,
                   transcurrido, alerta, abortos, visitas, encolados,
                   varsSalida, varsPuro, varsFallas, varsConcurrentes>>

\* A mutant of the corrupt entry: the row is moved to the end of the queue.
PasoCorruptaAlFinal ==
    /\ pc = "bucle"
    /\ Len(cola) > 1
    /\ ~(transcurrido > PresupuestoMS)
    /\ ~Decodificable(Head(cola).cache)
    /\ cola' = Append(Tail(cola), Head(cola))
    /\ UNCHANGED <<variante, permisosDrive, colaExiste, reporte, pc, actual,
                   transcurrido, alerta, abortos, visitas, encolados, borrados,
                   varsSalida, varsPuro, varsFallas, varsConcurrentes>>
\* JSON.parse throws: the failure is logged, deleteRow(2), continue.
PasoCorrupta ==
    /\ pc = "bucle"
    /\ Len(cola) > 0
    /\ ~(transcurrido > PresupuestoMS)
    /\ ~Decodificable(Head(cola).cache)
    /\ cola' = Tail(cola)
    /\ borrados' = Mas1(borrados, Head(cola).id)
    /\ UNCHANGED <<variante, permisosDrive, colaExiste, reporte, pc, actual,
                   transcurrido, alerta, abortos, visitas, encolados,
                   varsSalida, varsPuro, varsFallas, varsConcurrentes>>

NextFallas ==
    \/ NextSesiones
    \/ Corromper
    \/ PasoIrresoluble
    \/ PasoCorrupta

SpecFallas == InitFallas /\ [][NextFallas]_vars

(***************************************************************************)
(* C19  Unresolvable node.  When the loop handles a front entry whose      *)
(* folder cannot be resolved, it appends exactly one error row with the    *)
(* entry's path, removes the entry, enqueues nothing, diffs nothing, and   *)
(* stays at the top of the loop; the entry is not seen again.              *)
(***************************************************************************)
\* The loop has acted on the front entry (time passing, a pause and a damaged
\* cell are not the loop acting on it).
IdsDe(q) == [i \in DOMAIN q |-> q[i].id]
FrenteAtendido ==
    /\ pc = "bucle" /\ Len(cola) > 0
    /\ \/ IdsDe(cola') # IdsDe(cola)
       \/ reporte' # reporte
       \/ visitas' # visitas
       \/ encolados' # encolados
       \/ borrados' # borrados
    /\ ~PasoDeNuevaAuditoria

C19_NodoIrresoluble ==
    [][(FrenteAtendido /\ Decodificable(Head(cola).cache) /\ Head(cola).id \in rotos)
          => /\ Len(reporte') = Len(reporte) + 1
             /\ SubSeq(reporte', 1, Len(reporte)) = reporte
             /\ reporte'[Len(reporte')].ruta = Head(cola).ruta
             /\ EsFilaDeError(reporte'[Len(reporte')])
             /\ cola' = Tail(cola)
             /\ encolados' = encolados
             /\ visitas' = visitas
             /\ pc' = "bucle" /\ alerta' = alerta
             /\ \A i \in DOMAIN cola' : cola'[i].id # Head(cola).id]_vars

\* An unresolvable sub-folder was dropped with its error row as the last row
\* of the report, and the loop stands before the next entry.
C19_Witness ==
    /\ pc = "bucle" /\ Len(cola) > 0
    /\ \E n \in rotos :
          /\ borrados[n] = 1 /\ visitas[n] = 0
          /\ Len(reporte) > 0
          /\ reporte[Len(reporte)].ruta = n
          /\ EsFilaDeError(reporte[Len(reporte)])
          /\ \A h \in Nodos : (h # Raiz /\ Padre(h) = n) => encolados[h] = 0

(***************************************************************************)
(* C20  Corrupt entry.  When the loop handles a front entry whose cached   *)
(* set cannot be decoded, it removes the entry, writes no row, enqueues    *)
(* nothing, diffs nothing, leaves every other row as it was, and stays at  *)
(* the top of the loop; the entry is not seen again.                       *)
(***************************************************************************)
C20_EntradaCorrupta ==
    [][(FrenteAtendido /\ ~Decodificable(Head(cola).cache))
          => /\ cola' = Tail(cola)
             /\ reporte' = reporte
             /\ encolados' = encolados
             /\ visitas' = visitas
             /\ pc' = "bucle" /\ alerta' = alerta
             /\ \A i \in DOMAIN cola' : cola'[i].id # Head(cola).id]_vars

\* A row with a damaged cell was dropped for a folder that does resolve; its
\* folder was never visited, the report has no row for it, and the loop stands
\* before the next entry.
C20_Witness ==
    /\ pc = "bucle" /\ Len(cola) > 0
    /\ \E n \in CarpetasHijas \ rotos :
          /\ borrados[n] = 1 /\ visitas[n] = 0
          /\ FilasPara(reporte, n) = 0
          /\ \A i \in DOMAIN cola : cola[i].id # n

(***************************************************************************)
(* The listing of sub-folders fails for some folders (getFolders, hasNext  *)
(* or next throws after some of them were read).                           *)
(***************************************************************************)
ConSubCarpetas == {n \in Nodos : EsCarpeta(n) /\ Len(SubCarpetas(n)) > 0}

InitListado ==
    /\ InitAuditoria
    /\ SalidaEnReposo
    /\ PuroEnReposo
    /\ rotos = {}
    /\ listadoFalla \in SUBSET ConSubCarpetas
    /\ ConcurrentesEnReposo

SpecListado == InitListado /\ [][NextSesiones]_vars

(***************************************************************************)
(* C21  Atomic child batch.  The step that enqueues for a folder appends,  *)
(* below the rows already there, either a row for every sub-folder of the  *)
(* folder, in listing order, or no row at all; it appends none when the    *)
(* listing fails and all when it does not; and no other step of the        *)
(* traversal appends a row.                                                *)
(***************************************************************************)
Nuevas == SubSeq(cola', Len(cola) + 1, Len(cola'))

C21_LoteAtomico ==
    [][/\ PasoDeEncolado
            => /\ Len(cola') >= Len(cola)
               /\ SubSeq(cola', 1, Len(cola)) = cola
               /\ IdsDe(Nuevas) \in {<<>>, SubCarpetas(actual[1].item.id)}
               /\ (actual[1].item.id \in listadoFalla) => Nuevas = <<>>
               /\ (actual[1].item.id \notin listadoFalla)
                     => IdsDe(Nuevas) = SubCarpetas(actual[1].item.id)
       /\ (~PasoDeEncolado /\ ~PasoDeNuevaAuditoria) => Len(cola') <= Len(cola)
      ]_vars

\* The root's two sub-folders were enqueued together; the listing of folder 1
\* has just failed and none of its sub-folders has a row.
C21_Witness ==
    /\ pc = "encolada"
    /\ actual[1].item.id \in listadoFalla
    /\ ~actual[1].item.raiz
    /\ Len(SubCarpetas(actual[1].item.id)) > 0
    /\ \A h \in Rango(SubCarpetas(actual[1].item.id)) : encolados[h] = 0
    /\ \A h \in Rango(SubCarpetas(Raiz)) : encolados[h] = 1

(***************************************************************************)
(* C22  FIFO discipline.  Apart from a start or a clear, a step leaves the *)
(* queue as it is, or appends rows below the rows already there, or        *)
(* removes the front row and nothing else; the row removed is the entry    *)
(* that was processed; and a step that ends or begins a session leaves     *)
(* the pending rows as they are.                                           *)
(***************************************************************************)
PasoDeBorrado == pc = "encolada" /\ pc' = "bucle"

C22_DisciplinaFIFO ==
    [][~PasoDeNuevaAuditoria
          => /\ \/ cola' = cola
                \/ /\ PasoDeEncolado
                   /\ Len(cola') > Len(cola)
                   /\ SubSeq(cola', 1, Len(cola)) = cola
                \/ /\ PasoDeBorrado
                   /\ Len(cola) > 0
                   /\ Head(cola) = actual[1].item
                   /\ cola' = Tail(cola)
             /\ PasoDeBorrado => Len(cola') = Len(cola) - 1
             /\ (pc = "ocioso" \/ pc' = "ocioso") => cola' = cola
      ]_vars

\* Folder 1 has left the front, folder 2 has moved up unchanged, and folder 3,
\* found under folder 1, stands behind it; a session paused in between.
C22_Witness ==
    /\ pc = "bucle" /\ alerta = "pausa"
    /\ IdsDe(cola) = <<2, 3>>
    /\ borrados[1] = 1 /\ borrados[Raiz] = 1
    /\ cola[1].cache = Stringify(variante, Normalizar(variante, permisosDrive[Raiz]))

(***************************************************************************)
(* C23  Level order.  Once a folder at some depth has been visited, no row *)
(* of a folder nearer to the root is pending (so no folder at depth d+1 is *)
(* visited while one at depth d waits); and when a folder two or more      *)
(* levels down has been visited, every sub-folder of its grandparent has   *)
(* been enqueued.  Across sessions, interrupted ones included.             *)
(***************************************************************************)
RECURSIVE Profundidad(_)
Profundidad(n) == IF n = Raiz THEN 0 ELSE 1 + Profundidad(Padre(n))
Carpetas == {n \in Nodos : EsCarpeta(n)}

C23_OrdenPorNiveles ==
    /\ \A n \in Carpetas :
          visitas[n] > 0
             => \A i \in DOMAIN cola : Profundidad(cola[i].id) >= Profundidad(n)
    /\ \A g \in Carpetas :
          (visitas[g] > 0 /\ Profundidad(g) >= 2)
             => \A h \in Rango(SubCarpetas(Padre(Padre(g)))) :
                   encolados[h] > 0 /\ borrados[h] > 0

\* The folder two levels down has been visited, in a session resumed after a
\* pause, after both folders of the first level.
C23_Witness ==
    /\ alerta = "pausa" /\ pc = "diferenciada"
    /\ Profundidad(actual[1].item.id) = 2
    /\ \A h \in Rango(SubCarpetas(Raiz)) : visitas[h] = 1 /\ borrados[h] = 1

(***************************************************************************)
(* C24  Divergence yields one Finding.  When a non-root folder is visited  *)
(* whose set diverges from the set cached in its row, and when the files   *)
(* of a folder are handled and a file's set diverges from the folder's     *)
(* set (some identity of either set has a different access level, or the   *)
(* public access differs, or the domain access differs), that step appends *)
(* exactly one Finding row for the node.                                   *)
(***************************************************************************)
NivelDe(var, u, p) ==
    IF u \in Rango(EditoresDe(var, p)) THEN "Editor"
    ELSE IF u \in Rango(VisualizadoresDe(var, p)) THEN "Visualizador"
    ELSE "Ninguno"
HayDivergencia(var, base, hijo) ==
    \/ \E u \in Rango(EditoresDe(var, base)) \cup Rango(VisualizadoresDe(var, base))
              \cup Rango(EditoresDe(var, hijo)) \cup Rango(VisualizadoresDe(var, hijo)) :
           NivelDe(var, u, base) # NivelDe(var, u, hijo)
    \/ PublicoDe(var, base) # PublicoDe(var, hijo)
    \/ DominioDe(var, base) # DominioDe(var, hijo)
HallazgosNuevos(n) == Cardinality(HallazgosDe(n)') - Cardinality(HallazgosDe(n))

C24_UnHallazgoPorDivergencia ==
    [][/\ (/\ PasoDeVisita
           /\ ~Head(cola).raiz
           /\ HayDivergencia(variante, Parse(variante, Head(cola).cache),
                             Normalizar(variante, permisosDrive[Head(cola).id])))
            => HallazgosNuevos(Head(cola).id) = 1
       /\ PasoDeArchivos
            => \A f \in Hojas :
                  (/\ Padre(f) = actual[1].item.id
                   /\ HayDivergencia(variante, actual[1].permisos,
                                     Normalizar(variante, permisosDrive[f])))
                     => HallazgosNuevos(f) = 1
      ]_vars

(***************************************************************************)
(* C25  Complete listing in fixed order.  The access text built for a      *)
(* Finding lists: the public access of the child when it is not None, then *)
(* its domain access when it is not None, then each of its editors, then   *)
(* each of its viewers, every item with its level; all of the child's      *)
(* grants are there, those equal to the parent's included, and no identity *)
(* that only the parent has.  For a child with no grant at all the text is *)
(* the note that its permissions come by inheritance alone.                *)
(***************************************************************************)
EsItemPublico(x) == x.etiqueta = "Publico"
EsItemDominio(x) == x.etiqueta = "Dominio"
EsItemEditor(x) == x.etiqueta = "Usuario" /\ x.nivel = "Editor"
EsItemVisualizador(x) == x.etiqueta = "Usuario" /\ x.nivel = "Visualizador"
ClaseDe(x) ==
    IF EsItemPublico(x) THEN 1 ELSE IF EsItemDominio(x) THEN 2
    ELSE IF EsItemEditor(x) THEN 3 ELSE IF EsItemVisualizador(x) THEN 4 ELSE 5
DetallesDe(t) == [i \in DOMAIN t |-> t[i].detalle]
NivelesDe(t) == [i \in DOMAIN t |-> t[i].nivel]
HijoDeLaLlamada == Normalizar(variante, entrada[1].hijo)
PadreDeLaLlamada == Normalizar(variante, entrada[1].padre)
SinAcceso(var, p) ==
    /\ PublicoDe(var, p) = "Ninguno" /\ DominioDe(var, p) = "Ninguno"
    /\ EditoresDe(var, p) = <<>> /\ VisualizadoresDe(var, p) = <<>>

C25_ListadoCompleto ==
    (salida # <<>> /\ salida[1].texto # <<>>)
        => LET t == salida[1].texto
               h == HijoDeLaLlamada
           IN IF SinAcceso(variante, h) THEN t = SoloHerencia
              ELSE /\ \A i, j \in DOMAIN t : i < j => ClaseDe(t[i]) <= ClaseDe(t[j])
                   /\ \A i \in DOMAIN t : ClaseDe(t[i]) \in 1..4
                   /\ NivelesDe(SelectSeq(t, EsItemPublico))
                        = IF PublicoDe(variante, h) = "Ninguno" THEN <<>>
                          ELSE <<PublicoDe(variante, h)>>
                   /\ NivelesDe(SelectSeq(t, EsItemDominio))
                        = IF DominioDe(variante, h) = "Ninguno" THEN <<>>
                          ELSE <<DominioDe(variante, h)>>
                   /\ DetallesDe(SelectSeq(t, EsItemEditor)) = EditoresDe(variante, h)
                   /\ DetallesDe(SelectSeq(t, EsItemVisualizador))
                        = VisualizadoresDe(variante, h)

\* A text was built for a child that shares its link access and one editor
\* with the parent and has a viewer of its own, while the parent has an
\* editor the child lacks.
C25_Witness ==
    /\ salida # <<>> /\ Len(salida[1].texto) = 3
    /\ PublicoDe(variante, HijoDeLaLlamada) = "Visualizador"
    /\ PublicoDe(variante, PadreDeLaLlamada) = "Visualizador"
    /\ EditoresDe(variante, HijoDeLaLlamada) = <<"bob">>
    /\ VisualizadoresDe(variante, HijoDeLaLlamada) = <<"alice">>
    /\ EditoresDe(variante, PadreDeLaLlamada) = <<"bob", "alice">>

(***************************************************************************)
(* Normalisation under failing reads: one call of obtenerConjuntoPermisos  *)
(* / getPermissionSet on an item whose reads of some facets throw.         *)
(***************************************************************************)
Facetas == {"editors", "viewers", "sharing"}
CrudosConFallas ==
    {Crudo(ed, vi, e[1], e[2], f) :
        ed \in SeqHasta2(Identidades), vi \in SeqHasta2(Identidades),
        e \in Enlaces, f \in SUBSET Facetas}

InitNormalizar ==
    /\ variante \in {"legacy", "modular"}
    /\ AuditoriaEnReposo
    /\ SalidaEnReposo
    /\ entrada \in {<<c>> : c \in CrudosConFallas}
    /\ salida = <<>>
    /\ SinFallas
    /\ ConcurrentesEnReposo

\* Every service call of the function stands in a try whose catch is empty;
\* what follows the last try builds arrays from the two local sets.
LlamarNormalizar(var, crudo) == Resultado(Normalizar(var, crudo), "")

AplicarNormalizar ==
    /\ salida = <<>>
    /\ Len(entrada) = 1
    /\ salida' = <<LlamarNormalizar(variante, entrada[1])>>
    /\ UNCHANGED <<varsAuditoria, varsSalida, entrada, varsFallas, varsConcurrentes>>

NextNormalizar == AplicarNormalizar
SpecNormalizar == InitNormalizar /\ [][NextNormalizar]_vars

(***************************************************************************)
(* C26  Facet degradation.  Normalisation never throws.  A facet whose     *)
(* read fails takes its empty default (no editors, no viewers, public and  *)
(* domain access None); every other facet is what Drive reports for it;    *)
(* and no identity returned as editor is returned as viewer.               *)
(***************************************************************************)
NivelDelEnlace(crudo, alcances) ==
    IF crudo.sharingAccess \notin alcances THEN "Ninguno"
    ELSE IF crudo.sharingPermission = "EDIT" THEN "Editor"
    ELSE IF crudo.sharingPermission = "VIEW" THEN "Visualizador"
    ELSE "Ninguno"

C26_DegradacionPorFaceta ==
    salida # <<>>
        => LET c == entrada[1]
               r == salida[1].valor
               eds == Rango(EditoresDe(variante, r))
               vis == Rango(VisualizadoresDe(variante, r))
           IN /\ salida[1].excepcion = ""
              /\ eds = IF "editors" \in c.fallas THEN {} ELSE Rango(c.editors)
              /\ vis = IF "viewers" \in c.fallas THEN {} ELSE Rango(c.viewers) \ eds
              /\ eds \cap vis = {}
              /\ PublicoDe(variante, r)
                   = IF "sharing" \in c.fallas THEN "Ninguno"
                     ELSE NivelDelEnlace(c, {"ANYONE", "ANYONE_WITH_LINK"})
              /\ DominioDe(variante, r)
                   = IF "sharing" \in c.fallas THEN "Ninguno"
                     ELSE NivelDelEnlace(c, {"DOMAIN", "DOMAIN_WITH_LINK"})

\* The editors read failed on an item that has editors; its viewers and its
\* link sharing were still returned.
C26_Witness ==
    /\ salida # <<>>
    /\ entrada[1].fallas = {"editors"}
    /\ entrada[1].editors = <<"alice">>
    /\ EditoresDe(variante, salida[1].valor) = <<>>
    /\ VisualizadoresDe(variante, salida[1].valor) = <<"alice", "bob">>
    /\ PublicoDe(variante, salida[1].valor) = "Visualizador"

(***************************************************************************)
(* The output partitioner when the row append fails: openById, getSheets   *)
(* or appendRow throws inside the try of step 2.  `entrada` keeps the rows *)
(* whose append failed, each with the number of successful calls before.   *)
(***************************************************************************)
\* A mutant of step 2: the row counter is incremented after the try.
volcarHallazgoFallidoContando(estado, pags, datosFila) ==
    LET pags1 == IF NecesitaHoja(estado)
                 THEN Append(pags, <<CABECERAS_REPORTE_TECNICO>>) ELSE pags
        est1 == IF NecesitaHoja(estado)
                THEN [idSheet |-> Len(pags1), filaActual |-> 2,
                      parteActual |-> estado.parteActual + 1]
                ELSE estado
    IN [estado |-> [est1 EXCEPT !.filaActual = @ + 1], paginas |-> pags1]
\* The call when step 1 succeeds and the append of step 2 throws: the catch
\* logs, and the state of step 1 is returned.  [estado, paginas]
volcarHallazgoFallido(estado, pags, datosFila) ==
    LET pags1 == IF NecesitaHoja(estado)
                 THEN Append(pags, <<CABECERAS_REPORTE_TECNICO>>) ELSE pags
        est1 == IF NecesitaHoja(estado)
                THEN [idSheet |-> Len(pags1), filaActual |-> 2,
                      parteActual |-> estado.parteActual + 1]
                ELSE estado
    IN [estado |-> est1, paginas |-> pags1]

VolcarFallido ==
    /\ exitos <= LIMITE_FILAS_POR_HOJA_REPORTE
    /\ Len(entrada) < MaxFallos
    /\ \E datosFila \in FilasDePrueba :
          LET r == volcarHallazgoFallido(estadoActual, paginas, datosFila)
          IN /\ estadoActual' = r.estado
             /\ paginas' = r.paginas
             /\ entrada' = Append(entrada, [fila |-> datosFila, tras |-> exitos])
    /\ UNCHANGED <<varsAuditoria, exitos, salida, varsFallas, varsConcurrentes>>

NextSalidaFallas == Volcar \/ VolcarFallido
SpecSalidaFallas == InitSalida /\ [][NextSalidaFallas]_vars

(***************************************************************************)
(* C27  Dropped row on append failure.  A row whose append failed is not   *)
(* in any page and is not written by a later call: the pages hold one data *)
(* row per successful call.  The row counter counts the rows that are in   *)
(* the current page (it was not incremented by the failed call), the       *)
(* current page is the last one created and the part counter is the number *)
(* of pages created; the step of the failed call leaves the state exactly  *)
(* as step 1 of the call left it, so the next write goes to the same page. *)
(***************************************************************************)
RECURSIVE FilasDeDatos(_)
FilasDeDatos(pags) ==
    IF pags = <<>> THEN 0 ELSE (Len(Head(pags)) - 1) + FilasDeDatos(Tail(pags))
PasoDeAnexadoFallido == Len(entrada') = Len(entrada) + 1
EstadoCoherente(estado, pags) ==
    /\ FilasDeDatos(pags) = exitos
    /\ estado.parteActual = Len(pags)
    /\ estado.idSheet = Len(pags)
    /\ estado.idSheet # 0 => estado.filaActual = Len(pags[estado.idSheet]) + 1

C27_FilaDescartada ==
    [][PasoDeAnexadoFallido =>
          /\ EstadoCoherente(estadoActual', paginas')
          /\ exitos' = exitos
          /\ IF NecesitaHoja(estadoActual)
             THEN /\ paginas' = Append(paginas, <<CABECERAS_REPORTE_TECNICO>>)
                  /\ estadoActual'.filaActual = 2
             ELSE /\ paginas' = paginas
                  /\ estadoActual' = estadoActual]_vars

\* An append failed on the first page after one successful write, and the
\* next write went to the same page, below the first row.
C27_Witness ==
    /\ Len(entrada) = 1 /\ entrada[1].tras = 1
    /\ exitos = 2
    /\ Len(paginas) = 1 /\ Len(paginas[1]) = 3
    /\ estadoActual = [idSheet |-> 1, filaActual |-> 4, parteActual |-> 1]

(***************************************************************************)
(* One audit run to its end: a single start on a tree that does not        *)
(* change and whose folders all resolve, the operator resuming whenever    *)
(* an invocation has ended with the queue sheet in place.  The start time  *)
(* of an invocation is taken on its first line and the first deadline      *)
(* check follows five spreadsheet and session calls: the clock is read as  *)
(* advancing only while an entry is handled.  `entrada` keeps the number   *)
(* of rows deleted so far when the running invocation was entered.         *)
(***************************************************************************)
RECURSIVE SumaHasta(_, _)
SumaHasta(f, n) == IF n = 0 THEN f[0] ELSE f[n] + SumaHasta(f, n - 1)
TotalBorrados == SumaHasta(borrados, MaxNodo)
BorradosAlEntrar == IF entrada = <<>> THEN 0 ELSE entrada[1]

IniciarUnaVez == alerta = "ninguna" /\ IniciarOk

\* The resume has no limit of retries.  The histories of exceptions and of
\* visits saturate at the bound: past it, one more retry of the front row is
\* counted in place of the last one.
ContinuarAnotado ==
    /\ pc = "ocioso"
    /\ colaExiste
    /\ pc' = "bucle"
    /\ actual' = <<>>
    /\ transcurrido' = 0
    /\ entrada' = <<TotalBorrados>>
    /\ IF abortos > MaxAbortos /\ Len(cola) > 0
       THEN /\ abortos' = MaxAbortos
            /\ visitas' = [visitas EXCEPT ![Head(cola).id] = @ - 1]
       ELSE UNCHANGED <<abortos, visitas>>
    /\ UNCHANGED <<variante, permisosDrive, colaExiste, cola, reporte, alerta,
                   encolados, borrados, varsSalida, salida,
                   varsFallas, varsConcurrentes>>

PasaTiempoEnEntrada == pc \in {"diferenciada", "archivos", "encolada"} /\ PasaTiempo

NextProgreso ==
    \/ IniciarUnaVez
    \/ ContinuarAnotado
    \/ PasaTiempoEnEntrada
    \/ Pausa
    \/ Completar
    \/ PasoCarpeta
    \/ PasoArchivos
    \/ PasoEncolar
    \/ PasoBorrar

\* The operator starts and resumes, and a running invocation goes on.
SpecProgreso ==
    /\ Init
    /\ [][NextProgreso]_vars
    /\ WF_vars(IniciarUnaVez)
    /\ WF_vars(ContinuarAnotado)
    /\ WF_vars(Pausa)
    /\ WF_vars(Completar)
    /\ WF_vars(PasoCarpeta)
    /\ WF_vars(PasoArchivos)
    /\ WF_vars(PasoEncolar)
    /\ WF_vars(PasoBorrar)

(***************************************************************************)
(* C28  Termination.  On a finite tree that does not change and whose      *)
(* nodes all resolve, with resume invoked again whenever an invocation has *)
(* ended, the audit eventually reaches Completed: the success alert shown, *)
(* the queue empty and the queue sheet deleted, whatever the permissions   *)
(* of the nodes are.                                                       *)
(***************************************************************************)
Completada == pc = "ocioso" /\ alerta = "exito" /\ cola = <<>> /\ ~colaExiste

C28_Terminacion == <>Completada

(***************************************************************************)
(* C29  Progress per session.  An invocation that enters the loop with an  *)
(* entry pending pauses on the deadline only after it has deleted at least *)
(* one row from the front of the queue.                                    *)
(***************************************************************************)
C29_ProgresoPorSesion ==
    [][PasoDePausa => TotalBorrados > BorradosAlEntrar]_vars

\* A resumed invocation that found rows pending, deleted one and paused.
C29_Witness ==
    /\ pc = "ocioso" /\ alerta = "pausa"
    /\ entrada # <<>> /\ entrada[1] > 0
    /\ TotalBorrados > entrada[1]
    /\ Len(cola) > 0

(***************************************************************************)
(* C30  No success after a failed start.  The success alert of completion  *)
(* is shown only for an audit whose root entry was enqueued and processed: *)
(* a resume invoked after a start that failed on the access to the root    *)
(* does not show it.                                                       *)
(***************************************************************************)
C30_ExitoSoloTrasRaiz ==
    alerta = "exito" => (encolados[Raiz] > 0 /\ visitas[Raiz] > 0 /\ borrados[Raiz] > 0)

(***************************************************************************)
(* The output partitioner when step 1 throws.  Step 1 stands outside the   *)
(* try: it first writes parteActual and filaActual into the state object   *)
(* it was given, then creates the spreadsheet, writes its header, stores   *)
(* its id and moves it into the audit folder.  An exception of any of      *)
(* those calls leaves the function, and the state object keeps what was    *)
(* written before.  `punto` names the call that throws.                    *)
(***************************************************************************)
PuntosDeCreacion == {"create", "cabeceras", "moveTo"}

\* [estado, paginas] when step 1 is entered and the call `punto` throws.
volcarHallazgoCreacionFallida(estado, pags, punto) ==
    LET est0 == [estado EXCEPT !.parteActual = @ + 1, !.filaActual = 1]
    IN IF punto = "create"
       THEN \* SpreadsheetApp.create throws: no spreadsheet
            [estado |-> est0, paginas |-> pags]
       ELSE IF punto = "cabeceras"
       THEN \* the spreadsheet exists, its header row was not written
            [estado |-> est0, paginas |-> Append(pags, <<>>)]
       ELSE \* getFileById / getFolderById / moveTo throws: the spreadsheet
            \* has its header and is the current one
            [estado  |-> [est0 EXCEPT !.idSheet = Len(pags) + 1, !.filaActual = 2],
             paginas |-> Append(pags, <<CABECERAS_REPORTE_TECNICO>>)]

VolcarCreacionFallida ==
    /\ exitos <= LIMITE_FILAS_POR_HOJA_REPORTE
    /\ Len(entrada) < MaxFallos
    /\ NecesitaHoja(estadoActual)
    /\ \E punto \in PuntosDeCreacion :
          LET r == volcarHallazgoCreacionFallida(estadoActual, paginas, punto)
          IN /\ estadoActual' = r.estado
             /\ paginas' = r.paginas
             /\ entrada' = Append(entrada, [fila |-> punto, tras |-> exitos])
    /\ UNCHANGED <<varsAuditoria, exitos, salida, varsFallas, varsConcurrentes>>

NextSalidaCreacion == Volcar \/ VolcarFallido \/ VolcarCreacionFallida
SpecSalidaCreacion == InitSalida /\ [][NextSalidaCreacion]_vars

(***************************************************************************)
(* C31  Page capacity.  Over any sequence of write calls, those in which   *)
(* the creation or the relocation of a page throws included, no page holds *)
(* more than LIMITE_FILAS_POR_HOJA_REPORTE rows, header included, and the  *)
(* part counter is the number of pages created.                            *)
(***************************************************************************)
C31_CapacidadDePagina ==
    /\ \A i \in DOMAIN paginas : Len(paginas[i]) <= LIMITE_FILAS_POR_HOJA_REPORTE
    /\ estadoActual.parteActual = Len(paginas)

(***************************************************************************)
(* C32  Start clears before asking.  A start that the operator cancels at  *)
(* the prompt of the root id has already deleted the queue sheet of the    *)
(* audit that was paused, and has left the report as it was; a resume      *)
(* invoked after the cancelled start finds no queue sheet, says so, and    *)
(* processes nothing.                                                      *)
(***************************************************************************)
PasoDeInicioCancelado == pc = "ocioso" /\ pc' = "ocioso" /\ alerta' = "cancelada"

C32_LimpiaAntesDePreguntar ==
    [][/\ PasoDeInicioCancelado
            => (~colaExiste' /\ cola' = <<>> /\ reporte' = reporte)
       /\ (alerta = "cancelada" /\ ~PasoDeNuevaAuditoria)
            => /\ alerta' = "sinCola"
               /\ pc' = "ocioso"
               /\ UNCHANGED <<colaExiste, cola, reporte, visitas, encolados, borrados>>]_vars

\* A start was cancelled in the legacy edition with the report holding the
\* root block alone although folder 3 differs from its parent: the audit
\* that wrote the report had not reached folder 3, and its queue is gone.
C32_Witness ==
    /\ variante = "legacy"
    /\ pc = "ocioso" /\ alerta = "cancelada"
    /\ ~colaExiste /\ cola = <<>>
    /\ Len(reporte) = 1 /\ reporte[1].tipo = "Unidad Compartida (Raiz)"
    /\ differencesFound(getPermissionSet(permisosDrive[Padre(3)]),
                        getPermissionSet(permisosDrive[3]))

====
